---------------------------- MODULE Spec2Model ----------------------------
(***************************************************************************)
(* Anti-roll-bar sizing calculator (arb_calc.py, understeer_gradient_v2.py) *)
(*                                                                         *)
(* The program computes in binary floating point.  A number is modelled as *)
(* a normalised binary float [m, e] of value m * 2^e whose mantissa has    *)
(* MantBits bits (Python: 53), rounded to nearest, ties to even, after     *)
(* every operation, with an unbounded exponent.                            *)
(***************************************************************************)
EXTENDS Integers, Sequences, FiniteSets, TLC

\* Width of the mantissa of the modelled floats.
MantBits == 11

(***************************************************************************)
(* Floating-point arithmetic                                               *)
(***************************************************************************)
RECURSIVE Pow2(_)
Pow2(n) == IF n <= 0 THEN 1 ELSE 2 * Pow2(n - 1)

RECURSIVE BitLen(_)
BitLen(n) == IF n = 0 THEN 0 ELSE 1 + BitLen(n \div 2)

Abs(n) == IF n < 0 THEN -n ELSE n

Sign(n) == IF n < 0 THEN -1 ELSE 1

Zero == [m |-> 0, e |-> 0]

\* A magnitude q that may have reached 2^MantBits after rounding up
Renormalise(sign, q, e) ==
    IF q = Pow2(MantBits)
    THEN [m |-> sign * Pow2(MantBits - 1), e |-> e + 1]
    ELSE [m |-> sign * q, e |-> e]

\* Round the quotient q with remainder r of a division by 2 * half:
\* to nearest, ties to even
RoundNearestEven(q, r, half, sticky) ==
    IF (r > half) \/ (r = half /\ (sticky \/ q % 2 = 1)) THEN q + 1 ELSE q

\* The float nearest to sign * a * 2^e for a > 0 of len bits
RoundMagnitude(sign, a, len, e, sticky) ==
    IF len <= MantBits
    THEN [m |-> sign * a * Pow2(MantBits - len), e |-> e - (MantBits - len)]
    ELSE Renormalise(sign,
                     RoundNearestEven(a \div Pow2(len - MantBits), a % Pow2(len - MantBits),
                                      Pow2(len - MantBits - 1), sticky),
                     e + (len - MantBits))

\* The float nearest to n * 2^e; sticky says that the exact value lies
\* strictly above |n| * 2^e in magnitude (a division's remainder).
RoundFloat(n, e, sticky) ==
    IF n = 0 THEN Zero ELSE RoundMagnitude(Sign(n), Abs(n), BitLen(Abs(n)), e, sticky)

FromInt(n) == RoundFloat(n, 0, FALSE)

Neg(x) == [m |-> -x.m, e |-> x.e]

Mul(x, y) == RoundFloat(x.m * y.m, x.e + y.e, FALSE)

\* x / y for y # 0
Div(x, y) ==
    RoundFloat(Sign(x.m) * Sign(y.m) * ((Abs(x.m) * Pow2(MantBits + 2)) \div Abs(y.m)),
               x.e - y.e - (MantBits + 2),
               (Abs(x.m) * Pow2(MantBits + 2)) % Abs(y.m) # 0)

\* x + y for x.e >= y.e, both nonzero
AddOrdered(x, y) ==
    IF x.e - y.e > MantBits + 2 THEN x
    ELSE RoundFloat(x.m * Pow2(x.e - y.e) + y.m, y.e, FALSE)

Add(x, y) ==
    IF x.m = 0 THEN y
    ELSE IF y.m = 0 THEN x
    ELSE IF x.e >= y.e THEN AddOrdered(x, y) ELSE AddOrdered(y, x)

Sub(x, y) == Add(x, Neg(y))

Lt(x, y) == Sub(x, y).m < 0

Le(x, y) == Sub(x, y).m <= 0

\* The float of the decimal literal n / d
Dec(n, d) == Div(FromInt(n), FromInt(d))


Ge(x, y) == Le(y, x)

Gt(x, y) == Lt(y, x)

\* x ** 2, x ** 3, x ** 4 on floats
Sq(x) == Mul(x, x)

Cube(x) == Mul(Sq(x), x)

Pow4(x) == Sq(Sq(x))

\* math.pi
Pi == Dec(355, 113)

\* math.degrees(x): x * (180 / pi)
Degrees(x) == Mul(x, Div(FromInt(180), Pi))

\* The outcome of a call: a returned value, or a raised exception.
Ok(v) == [ok |-> TRUE, v |-> v, err |-> ""]

Raise(msg) == [ok |-> FALSE, v |-> Zero, err |-> msg]

(***************************************************************************)
(* arb_calc.py                                                             *)
(***************************************************************************)
GRAVITY == Dec(981, 100)

\* polar_second_moment rejecting the solid bar (d_id = 0)
polar_second_moment_le(d_od, d_id) ==
    IF Le(d_od, Zero) THEN Raise("Outer diameter must be positive")
    ELSE IF Le(d_id, Zero) \/ Ge(d_id, d_od)
    THEN Raise("Inner diameter must be >= 0 and < outer diameter")
    ELSE Ok(Mul(Div(Pi, FromInt(32)), Sub(Pow4(d_od), Pow4(d_id))))

\* polar_second_moment accepting an inner diameter equal to the outer one
polar_second_moment_gt(d_od, d_id) ==
    IF Le(d_od, Zero) THEN Raise("Outer diameter must be positive")
    ELSE IF Lt(d_id, Zero) \/ Gt(d_id, d_od)
    THEN Raise("Inner diameter must be >= 0 and < outer diameter")
    ELSE Ok(Mul(Div(Pi, FromInt(32)), Sub(Pow4(d_od), Pow4(d_id))))

polar_second_moment(d_od, d_id) ==
    IF Le(d_od, Zero) THEN Raise("Outer diameter must be positive")
    ELSE IF Lt(d_id, Zero) \/ Ge(d_id, d_od)
    THEN Raise("Inner diameter must be >= 0 and < outer diameter")
    ELSE Ok(Mul(Div(Pi, FromInt(32)), Sub(Pow4(d_od), Pow4(d_id))))

area_moment_round(d_od, d_id) ==
    IF Le(d_od, Zero) THEN Raise("Outer diameter must be positive")
    ELSE IF Lt(d_id, Zero) \/ Ge(d_id, d_od)
    THEN Raise("Inner diameter must be >= 0 and < outer diameter")
    ELSE Ok(Mul(Div(Pi, FromInt(64)), Sub(Pow4(d_od), Pow4(d_id))))

torsion_stiffness(shear_modulus, d_od, center_length, arm_length, d_id) ==
    IF Le(center_length, Zero) \/ Le(arm_length, Zero)
    THEN Raise("Center length and arm length must be positive")
    ELSE LET WithJ(J) ==
                 IF ~J.ok THEN J
                 ELSE Ok(Div(Mul(shear_modulus, J.v), Mul(center_length, Sq(arm_length))))
         IN  WithJ(polar_second_moment(d_od, d_id))

cantilever_stiffness(young_modulus, d_od, arm_length, d_id) ==
    IF Le(arm_length, Zero) THEN Raise("Arm length must be positive")
    ELSE LET WithI(I) ==
                 IF ~I.ok THEN I
                 ELSE Ok(Div(Mul(Mul(FromInt(3), young_modulus), I.v), Cube(arm_length)))
         IN  WithI(area_moment_round(d_od, d_id))

\* sum(1.0 / r for r in finite), added left to right starting from 0
RECURSIVE SumInv(_)
SumInv(finite) ==
    IF finite = <<>> THEN Zero
    ELSE Add(SumInv(SubSeq(finite, 1, Len(finite) - 1)),
             Div(FromInt(1), finite[Len(finite)]))

\* series_rate dropping only the zero rates
IsNonZero(r) == r.m # 0

IsPositive(r) == Gt(r, Zero)

series_rate(rates) ==
    LET WithFinite(finite) ==
            IF finite = <<>> THEN Raise("At least one positive stiffness is required")
            ELSE Ok(Div(FromInt(1), SumInv(finite)))
    IN  WithFinite(SelectSeq(rates, IsPositive))

\* An optional argument: <<>> is None, <<x>> is the value x.
None == <<>>

\* arb_tip_rate using the left arm's rate on both sides
arb_tip_rate_left_only(shear_modulus, young_modulus, d_od, center_length, arm_length, d_id, arm_rate_left, arm_rate_right) ==
    LET WithTorsion(k_left, k_torsion, k_right) ==
            IF ~k_torsion.ok THEN k_torsion
            ELSE series_rate(<<k_left, k_torsion.v, k_right>>)
        WithArm(k_arm_default) ==
            IF ~k_arm_default.ok THEN k_arm_default
            ELSE WithTorsion(
                     IF arm_rate_left # None THEN arm_rate_left[1] ELSE k_arm_default.v,
                     torsion_stiffness(shear_modulus, d_od, center_length, arm_length, d_id),
                     IF arm_rate_left # None THEN arm_rate_left[1] ELSE k_arm_default.v)
    IN  WithArm(cantilever_stiffness(young_modulus, d_od, arm_length, d_id))

arb_tip_rate(shear_modulus, young_modulus, d_od, center_length, arm_length, d_id, arm_rate_left, arm_rate_right) ==
    LET WithTorsion(k_left, k_torsion, k_right) ==
            IF ~k_torsion.ok THEN k_torsion
            ELSE series_rate(<<k_left, k_torsion.v, k_right>>)
        WithArm(k_arm_default) ==
            IF ~k_arm_default.ok THEN k_arm_default
            ELSE WithTorsion(
                     IF arm_rate_left # None THEN arm_rate_left[1] ELSE k_arm_default.v,
                     torsion_stiffness(shear_modulus, d_od, center_length, arm_length, d_id),
                     IF arm_rate_right # None THEN arm_rate_right[1] ELSE k_arm_default.v)
    IN  WithArm(cantilever_stiffness(young_modulus, d_od, arm_length, d_id))

\* wheel_rate_from_tip accepting a motion ratio of zero
wheel_rate_from_tip_lt(tip_rate, motion_ratio) ==
    IF Lt(motion_ratio, Zero) THEN Raise("Motion ratio must be positive")
    ELSE Ok(Mul(tip_rate, Sq(motion_ratio)))

wheel_rate_from_tip(tip_rate, motion_ratio) ==
    IF Le(motion_ratio, Zero) THEN Raise("Motion ratio must be positive")
    ELSE Ok(Mul(tip_rate, Sq(motion_ratio)))

roll_stiffness_from_wheel_rate(wheel_rate, track_width) ==
    IF Le(track_width, Zero) THEN Raise("Track width must be positive")
    ELSE Ok(Div(Mul(wheel_rate, Sq(track_width)), FromInt(2)))

\* A roll gradient that grows with the roll stiffness
roll_gradient_growing(total_roll_stiffness, sprung_mass, torque_arm_height) ==
    IF Le(total_roll_stiffness, Zero) THEN Raise("Total roll stiffness must be positive")
    ELSE Ok(Degrees(Div(total_roll_stiffness,
                        Mul(Mul(sprung_mass, GRAVITY), torque_arm_height))))

roll_gradient_deg_per_g(total_roll_stiffness, sprung_mass, torque_arm_height) ==
    IF Le(total_roll_stiffness, Zero) THEN Raise("Total roll stiffness must be positive")
    ELSE Ok(Degrees(Div(Mul(Mul(sprung_mass, GRAVITY), torque_arm_height),
                        total_roll_stiffness)))

(***************************************************************************)
(* understeer_gradient_v2.py: VehicleDynamicsCalculator                    *)
(***************************************************************************)
VARIABLES
    vehicle,            \* VehicleParams
    front, rear,        \* AxleParams of the two axles (shared with the caller)
    target,             \* RollGradientTarget
    torque_arm_height,  \* set by __init__
    pc,                 \* position inside optimize_arb_diameters
    front_d_min, front_d_max, rear_d_min, rear_d_max,
    front_iter, rear_iter,   \* loop bodies executed by the two for loops
    current_rg,         \* <<>> or <<roll gradient of the last evaluation>>
    result,             \* <<>> or <<the returned dict>>
    raised,             \* message of the exception that left the call, or ""
    calls,              \* calls of optimize_arb_diameters started so far
    front_at_call, rear_at_call,  \* the axle records when the call started
    first_result,       \* <<>> or <<the dict the first call returned>>
    band_seen,          \* an evaluation of the front loop met the target band
    call,               \* the last call of a function or method and its outcome
    tire_front, tire_rear,   \* TireParams of the two axles
    arb_results         \* ARBCalculator.results: <<>> (empty dict) or <<the C-values>>

calcVars == <<vehicle, front, rear, target, torque_arm_height, pc,
              front_d_min, front_d_max, rear_d_min, rear_d_max,
              front_iter, rear_iter, current_rg, result, raised, calls,
              front_at_call, rear_at_call, first_result, band_seen>>

\* State outside optimize_arb_diameters' own data
extVars == <<tire_front, tire_rear, arb_results>>

vars == <<calcVars, call, extVars>>

max_iterations == 50

\* Calls of optimize_arb_diameters on one calculator
MaxCalls == 2

_calculate_torque_arm(v) ==
    LET weight_front_ratio == Div(v.front_weight, Add(v.front_weight, v.rear_weight))
        a_s == Mul(weight_front_ratio, v.wheelbase)
    IN  Sub(Sub(v.sprung_cg_height, v.front_rc_height),
            Mul(Div(a_s, v.wheelbase), Sub(v.rear_rc_height, v.front_rc_height)))

calculate_arb_tip_rate(axle) ==
    arb_tip_rate(axle.arb_shear_modulus, axle.arb_young_modulus, axle.arb_d_od,
                 axle.arb_center_length, axle.arb_arm_length, axle.arb_d_id,
                 None, None)

calculate_axle_roll_stiffness(axle, tip_rate) ==
    LET Dict(k_spring_wheel, k_arb_wheel, k_phi_spring, k_phi_arb, total) ==
            IF total = Zero THEN Raise("float division by zero")
            ELSE Ok([spring_wheel_rate |-> k_spring_wheel,
                     arb_wheel_rate |-> k_arb_wheel,
                     spring_roll_stiffness |-> k_phi_spring,
                     arb_roll_stiffness |-> k_phi_arb,
                     total_roll_stiffness |-> total,
                     arb_tip_rate |-> tip_rate,
                     aux_percent |-> Mul(Div(k_phi_arb, total), FromInt(100))])
        WithRollStiffness(k_spring_wheel, k_arb_wheel, k_phi_spring, k_phi_arb) ==
            IF ~k_phi_spring.ok THEN k_phi_spring
            ELSE IF ~k_phi_arb.ok THEN k_phi_arb
            ELSE Dict(k_spring_wheel, k_arb_wheel, k_phi_spring.v, k_phi_arb.v,
                      Add(k_phi_spring.v, k_phi_arb.v))
        WithWheelRates(k_spring_wheel, k_arb_wheel) ==
            WithRollStiffness(k_spring_wheel, k_arb_wheel,
                              roll_stiffness_from_wheel_rate(k_spring_wheel, axle.track_width),
                              roll_stiffness_from_wheel_rate(k_arb_wheel, axle.track_width))
    IN  WithWheelRates(Mul(axle.spring_rate, Sq(axle.motion_ratio)),
                       Mul(tip_rate, Sq(axle.motion_ratio)))

calculate_roll_gradient(total_roll_stiffness) ==
    roll_gradient_deg_per_g(total_roll_stiffness, vehicle.sprung_mass, torque_arm_height)

\* The evaluation that optimize_arb_diameters repeats for the axle records
\* f and r: tip rates, axle breakdowns, total roll stiffness, roll gradient.
Evaluate(f, r) ==
    LET WithGradient(front_data, rear_data, total_k_phi, rg) ==
            IF ~rg.ok THEN rg
            ELSE Ok([front |-> front_data, rear |-> rear_data,
                     total_roll_stiffness |-> total_k_phi,
                     roll_gradient_deg_per_g |-> rg.v])
        WithTotal(front_data, rear_data, total_k_phi) ==
            WithGradient(front_data, rear_data, total_k_phi,
                         calculate_roll_gradient(total_k_phi))
        WithData(front_data, rear_data) ==
            IF ~front_data.ok THEN front_data
            ELSE IF ~rear_data.ok THEN rear_data
            ELSE WithTotal(front_data.v, rear_data.v,
                           Add(front_data.v.total_roll_stiffness,
                               rear_data.v.total_roll_stiffness))
        WithTips(front_tip, rear_tip) ==
            IF ~front_tip.ok THEN front_tip
            ELSE IF ~rear_tip.ok THEN rear_tip
            ELSE WithData(calculate_axle_roll_stiffness(f, front_tip.v),
                          calculate_axle_roll_stiffness(r, rear_tip.v))
    IN  WithTips(calculate_arb_tip_rate(f), calculate_arb_tip_rate(r))

\* A candidate one third of the way up the bracket
LowerThird(d_min, d_max) == Div(Add(Add(d_min, d_min), d_max), FromInt(3))

Mid(d_min, d_max) == Div(Add(d_min, d_max), FromInt(2))

\* meets_target with the lower bound forgotten
MeetsTargetUpperOnly(rg) == Le(rg, target.target_deg_per_g_max)

MeetsTarget(rg) ==
    Le(target.target_deg_per_g_min, rg) /\ Le(rg, target.target_deg_per_g_max)

\* A loop that stops as soon as the roll gradient is inside the target band
LoopContinuesUntilInBand(i) ==
    i < max_iterations /\ (IF current_rg = <<>> THEN TRUE ELSE ~MeetsTarget(current_rg[1]))

\* for _ in range(max_iterations): the body runs again after i bodies
LoopContinues(i) == i < max_iterations

(***************************************************************************)
(* Inputs                                                                  *)
(***************************************************************************)
Steel_G == Mul(FromInt(80), FromInt(1000000000))

Steel_E == Mul(FromInt(210), FromInt(1000000000))

\* (target_deg_per_g_min, target_deg_per_g_max) pairs, deg/g
TargetBands ==
    { <<Dec(35, 10), Dec(38, 10)>>, <<Dec(20, 10), Dec(22, 10)>>, <<FromInt(5), FromInt(6)>>,
      <<Dec(5, 10), Dec(8, 10)>> }

FrontInitialDiameters == { Dec(20, 1000), Dec(30, 1000) }

RearInitialDiameters == { Dec(20, 1000), Dec(12, 1000), Dec(26, 1000) }

RearTrackWidths == { Dec(153, 100), Zero }

RearArmLengths == { Dec(22, 100), Neg(Dec(22, 100)) }

AxleParams(spring_rate, motion_ratio, track_width, arb_arm_length, arb_d_od) ==
    [spring_rate |-> spring_rate,
     motion_ratio |-> motion_ratio,
     track_width |-> track_width,
     arb_shear_modulus |-> Steel_G,
     arb_young_modulus |-> Steel_E,
     arb_center_length |-> Dec(9, 10),
     arb_arm_length |-> arb_arm_length,
     arb_d_od |-> arb_d_od,
     arb_d_id |-> Zero,
     roll_steer_gradient |-> Dec(65, 10),
     camber_per_roll |-> FromInt(90),
     lateral_force_steer_compliance |-> Zero,
     lateral_force_camber_compliance |-> Zero,
     aligning_torque_steer_compliance |-> Zero]

\* TireParams(cornering_stiffness, camber_stiffness, vertical_stiffness, pneumatic_trail)
TireParams(cornering_stiffness, camber_stiffness, vertical_stiffness, pneumatic_trail) ==
    [cornering_stiffness |-> cornering_stiffness,
     camber_stiffness |-> camber_stiffness,
     vertical_stiffness |-> vertical_stiffness,
     pneumatic_trail |-> pneumatic_trail]

NoCall == [fn |-> "none", args |-> <<>>, out |-> Raise("")]

InitCalculator ==
    /\ vehicle = [sprung_mass |-> FromInt(1300),
                  wheelbase |-> Dec(265, 100),
                  front_weight |-> FromInt(7850),
                  rear_weight |-> FromInt(6400),
                  sprung_cg_height |-> Dec(55, 100),
                  front_rc_height |-> Dec(5, 100),
                  rear_rc_height |-> Dec(8, 100)]
    /\ \E fd \in FrontInitialDiameters :
           front = AxleParams(FromInt(35000), Dec(95, 100), Dec(155, 100), Dec(25, 100), fd)
    /\ \E rd \in RearInitialDiameters, tw \in RearTrackWidths, al \in RearArmLengths :
           rear = AxleParams(FromInt(30000), Dec(90, 100), tw, al, rd)
    /\ \E band \in TargetBands :
           target = [target_deg_per_g_min |-> band[1],
                     target_deg_per_g_max |-> band[2],
                     front_aux_percent_max |-> FromInt(60),
                     rear_aux_percent_max |-> FromInt(25)]
    /\ torque_arm_height = _calculate_torque_arm(vehicle)
    /\ pc = "idle"
    /\ front_d_min = Zero /\ front_d_max = Zero
    /\ rear_d_min = Zero /\ rear_d_max = Zero
    /\ front_iter = 0 /\ rear_iter = 0
    /\ current_rg = <<>>
    /\ result = <<>>
    /\ raised = ""
    /\ calls = 0
    /\ front_at_call = front /\ rear_at_call = rear
    /\ first_result = <<>>
    /\ band_seen = FALSE
    /\ tire_front = TireParams(FromInt(60000), FromInt(6000), FromInt(200000), Dec(15, 1000))
    /\ tire_rear = TireParams(FromInt(55000), FromInt(5500), FromInt(200000), Dec(15, 1000))
    /\ arb_results = <<>>

Init == InitCalculator /\ call = NoCall

(***************************************************************************)
(* optimize_arb_diameters, one step per loop body                          *)
(***************************************************************************)
\* The call starts: the search brackets and the iteration count
Call ==
    /\ pc \in {"idle", "done"}
    /\ calls < MaxCalls
    /\ front_d_min' = Dec(10, 1000) /\ front_d_max' = Dec(40, 1000)
    /\ rear_d_min' = Dec(8, 1000) /\ rear_d_max' = Dec(25, 1000)
    /\ front_iter' = 0 /\ rear_iter' = 0
    /\ current_rg' = <<>>
    /\ result' = <<>>
    /\ calls' = calls + 1
    /\ front_at_call' = front /\ rear_at_call' = rear
    /\ band_seen' = FALSE
    /\ pc' = "front_loop"
    /\ UNCHANGED <<vehicle, front, rear, target, torque_arm_height, raised,
                   first_result, call, extVars>>

\* A front loop body that raises the lower bound when the roll gradient is
\* below target_min
FrontIterationTowardsLarger ==
    /\ pc = "front_loop"
    /\ LoopContinues(front_iter)
    /\ LET Body(front_d_mid, ev) ==
           /\ front' = [front EXCEPT !.arb_d_od = front_d_mid]
           /\ IF ~ev.ok
              THEN /\ pc' = "raised"
                   /\ raised' = ev.err
                   /\ UNCHANGED <<front_d_min, front_d_max, front_iter, current_rg,
                                  band_seen>>
              ELSE /\ current_rg' = <<ev.v.roll_gradient_deg_per_g>>
                   /\ IF Lt(ev.v.roll_gradient_deg_per_g, target.target_deg_per_g_min)
                      THEN front_d_min' = front_d_mid /\ UNCHANGED front_d_max
                      ELSE front_d_max' = front_d_mid /\ UNCHANGED front_d_min
                   /\ front_iter' = front_iter + 1
                   /\ band_seen' = (band_seen \/ MeetsTarget(ev.v.roll_gradient_deg_per_g))
                   /\ UNCHANGED <<pc, raised>>
       IN  Body(Mid(front_d_min, front_d_max),
                Evaluate([front EXCEPT !.arb_d_od = Mid(front_d_min, front_d_max)], rear))
    /\ UNCHANGED <<vehicle, rear, target, torque_arm_height, rear_d_min, rear_d_max,
                   rear_iter, result, calls, front_at_call, rear_at_call,
                   first_result, call, extVars>>

\* A front loop body that compares the roll gradient with target_max
FrontIterationAgainstMax ==
    /\ pc = "front_loop"
    /\ LoopContinues(front_iter)
    /\ LET Body(front_d_mid, ev) ==
           /\ front' = [front EXCEPT !.arb_d_od = front_d_mid]
           /\ IF ~ev.ok
              THEN /\ pc' = "raised"
                   /\ raised' = ev.err
                   /\ UNCHANGED <<front_d_min, front_d_max, front_iter, current_rg,
                                  band_seen>>
              ELSE /\ current_rg' = <<ev.v.roll_gradient_deg_per_g>>
                   /\ IF Lt(ev.v.roll_gradient_deg_per_g, target.target_deg_per_g_max)
                      THEN front_d_max' = front_d_mid /\ UNCHANGED front_d_min
                      ELSE front_d_min' = front_d_mid /\ UNCHANGED front_d_max
                   /\ front_iter' = front_iter + 1
                   /\ band_seen' = (band_seen \/ MeetsTarget(ev.v.roll_gradient_deg_per_g))
                   /\ UNCHANGED <<pc, raised>>
       IN  Body(Mid(front_d_min, front_d_max),
                Evaluate([front EXCEPT !.arb_d_od = Mid(front_d_min, front_d_max)], rear))
    /\ UNCHANGED <<vehicle, rear, target, torque_arm_height, rear_d_min, rear_d_max,
                   rear_iter, result, calls, front_at_call, rear_at_call,
                   first_result, call, extVars>>

\* A front loop body that evaluates the axles before it assigns the candidate
FrontIterationReadingFirst ==
    /\ pc = "front_loop"
    /\ LoopContinues(front_iter)
    /\ LET Body(front_d_mid, ev) ==
           /\ front' = [front EXCEPT !.arb_d_od = front_d_mid]
           /\ IF ~ev.ok
              THEN /\ pc' = "raised"
                   /\ raised' = ev.err
                   /\ UNCHANGED <<front_d_min, front_d_max, front_iter, current_rg,
                                  band_seen>>
              ELSE /\ current_rg' = <<ev.v.roll_gradient_deg_per_g>>
                   /\ IF Lt(ev.v.roll_gradient_deg_per_g, target.target_deg_per_g_min)
                      THEN front_d_max' = front_d_mid /\ UNCHANGED front_d_min
                      ELSE front_d_min' = front_d_mid /\ UNCHANGED front_d_max
                   /\ front_iter' = front_iter + 1
                   /\ band_seen' = (band_seen \/ MeetsTarget(ev.v.roll_gradient_deg_per_g))
                   /\ UNCHANGED <<pc, raised>>
       IN  Body(Mid(front_d_min, front_d_max),
                Evaluate(front, rear))
    /\ UNCHANGED <<vehicle, rear, target, torque_arm_height, rear_d_min, rear_d_max,
                   rear_iter, result, calls, front_at_call, rear_at_call,
                   first_result, call, extVars>>

\* One body of the loop "Optimize front diameter"
FrontIteration ==
    /\ pc = "front_loop"
    /\ LoopContinues(front_iter)
    /\ LET Body(front_d_mid, ev) ==
           /\ front' = [front EXCEPT !.arb_d_od = front_d_mid]
           /\ IF ~ev.ok
              THEN /\ pc' = "raised"
                   /\ raised' = ev.err
                   /\ UNCHANGED <<front_d_min, front_d_max, front_iter, current_rg,
                                  band_seen>>
              ELSE /\ current_rg' = <<ev.v.roll_gradient_deg_per_g>>
                   /\ IF Lt(ev.v.roll_gradient_deg_per_g, target.target_deg_per_g_min)
                      THEN front_d_max' = front_d_mid /\ UNCHANGED front_d_min
                      ELSE front_d_min' = front_d_mid /\ UNCHANGED front_d_max
                   /\ front_iter' = front_iter + 1
                   /\ band_seen' = (band_seen \/ MeetsTarget(ev.v.roll_gradient_deg_per_g))
                   /\ UNCHANGED <<pc, raised>>
       IN  Body(Mid(front_d_min, front_d_max),
                Evaluate([front EXCEPT !.arb_d_od = Mid(front_d_min, front_d_max)], rear))
    /\ UNCHANGED <<vehicle, rear, target, torque_arm_height, rear_d_min, rear_d_max,
                   rear_iter, result, calls, front_at_call, rear_at_call,
                   first_result, call, extVars>>

\* A front exit that leaves the front bar at the upper end of its bracket
FrontExitAtUpperBound ==
    /\ pc = "front_loop"
    /\ ~LoopContinues(front_iter)
    /\ front' = [front EXCEPT !.arb_d_od = front_d_max]
    /\ pc' = "rear_loop"
    /\ UNCHANGED <<vehicle, rear, target, torque_arm_height, front_d_min, front_d_max,
                   rear_d_min, rear_d_max, front_iter, rear_iter, current_rg, result,
                   raised, calls, front_at_call, rear_at_call, first_result,
                   band_seen, call, extVars>>

\* A front exit that also writes the motion ratio of the front axle
FrontExitWritingRatio ==
    /\ pc = "front_loop"
    /\ ~LoopContinues(front_iter)
    /\ front' = [front EXCEPT !.arb_d_od = Mid(front_d_min, front_d_max),
                            !.motion_ratio = FromInt(1)]
    /\ pc' = "rear_loop"
    /\ UNCHANGED <<vehicle, rear, target, torque_arm_height, front_d_min, front_d_max,
                   rear_d_min, rear_d_max, front_iter, rear_iter, current_rg, result,
                   raised, calls, front_at_call, rear_at_call, first_result,
                   band_seen, call, extVars>>

\* The front loop is over: the front diameter is fixed at the bracket midpoint
FrontExit ==
    /\ pc = "front_loop"
    /\ ~LoopContinues(front_iter)
    /\ front' = [front EXCEPT !.arb_d_od = Mid(front_d_min, front_d_max)]
    /\ pc' = "rear_loop"
    /\ UNCHANGED <<vehicle, rear, target, torque_arm_height, front_d_min, front_d_max,
                   rear_d_min, rear_d_max, front_iter, rear_iter, current_rg, result,
                   raised, calls, front_at_call, rear_at_call, first_result,
                   band_seen, call, extVars>>

\* A rear loop body that compares the roll gradient with target_max
RearIterationAgainstMax ==
    /\ pc = "rear_loop"
    /\ LoopContinues(rear_iter)
    /\ LET Body(rear_d_mid, ev) ==
           /\ rear' = [rear EXCEPT !.arb_d_od = rear_d_mid]
           /\ IF ~ev.ok
              THEN /\ pc' = "raised"
                   /\ raised' = ev.err
                   /\ UNCHANGED <<rear_d_min, rear_d_max, rear_iter, current_rg>>
              ELSE /\ current_rg' = <<ev.v.roll_gradient_deg_per_g>>
                   /\ IF Lt(ev.v.roll_gradient_deg_per_g, target.target_deg_per_g_max)
                      THEN rear_d_max' = rear_d_mid /\ UNCHANGED rear_d_min
                      ELSE rear_d_min' = rear_d_mid /\ UNCHANGED rear_d_max
                   /\ rear_iter' = rear_iter + 1
                   /\ UNCHANGED <<pc, raised>>
       IN  Body(Mid(rear_d_min, rear_d_max),
                Evaluate(front, [rear EXCEPT !.arb_d_od = Mid(rear_d_min, rear_d_max)]))
    /\ UNCHANGED <<vehicle, front, target, torque_arm_height, front_d_min, front_d_max,
                   front_iter, result, calls, front_at_call, rear_at_call,
                   first_result, band_seen, call, extVars>>

\* One body of the loop "Optimize rear diameter"
RearIteration ==
    /\ pc = "rear_loop"
    /\ LoopContinues(rear_iter)
    /\ LET Body(rear_d_mid, ev) ==
           /\ rear' = [rear EXCEPT !.arb_d_od = rear_d_mid]
           /\ IF ~ev.ok
              THEN /\ pc' = "raised"
                   /\ raised' = ev.err
                   /\ UNCHANGED <<rear_d_min, rear_d_max, rear_iter, current_rg>>
              ELSE /\ current_rg' = <<ev.v.roll_gradient_deg_per_g>>
                   /\ IF Lt(ev.v.roll_gradient_deg_per_g, target.target_deg_per_g_min)
                      THEN rear_d_max' = rear_d_mid /\ UNCHANGED rear_d_min
                      ELSE rear_d_min' = rear_d_mid /\ UNCHANGED rear_d_max
                   /\ rear_iter' = rear_iter + 1
                   /\ UNCHANGED <<pc, raised>>
       IN  Body(Mid(rear_d_min, rear_d_max),
                Evaluate(front, [rear EXCEPT !.arb_d_od = Mid(rear_d_min, rear_d_max)]))
    /\ UNCHANGED <<vehicle, front, target, torque_arm_height, front_d_min, front_d_max,
                   front_iter, result, calls, front_at_call, rear_at_call,
                   first_result, band_seen, call, extVars>>

\* The dict that optimize_arb_diameters returns for the evaluation ev
ResultDict(ev) ==
    [front |-> ev.front,
     rear |-> ev.rear,
     total_roll_stiffness |-> ev.total_roll_stiffness,
     roll_gradient_deg_per_g |-> ev.roll_gradient_deg_per_g,
     meets_target |-> MeetsTarget(ev.roll_gradient_deg_per_g)]

\* "Final calculation" and return
Final ==
    /\ pc = "rear_loop"
    /\ ~LoopContinues(rear_iter)
    /\ LET Body(newFront, newRear, ev) ==
           /\ front' = newFront
           /\ rear' = newRear
           /\ IF ~ev.ok
              THEN /\ pc' = "raised"
                   /\ raised' = ev.err
                   /\ UNCHANGED <<current_rg, result, first_result>>
              ELSE /\ current_rg' = <<ev.v.roll_gradient_deg_per_g>>
                   /\ result' = <<ResultDict(ev.v)>>
                   /\ first_result' = IF calls = 1 THEN <<ResultDict(ev.v)>> ELSE first_result
                   /\ pc' = "done"
                   /\ UNCHANGED raised
       IN  Body([front EXCEPT !.arb_d_od = Mid(front_d_min, front_d_max)],
                [rear EXCEPT !.arb_d_od = Mid(rear_d_min, rear_d_max)],
                Evaluate([front EXCEPT !.arb_d_od = Mid(front_d_min, front_d_max)],
                         [rear EXCEPT !.arb_d_od = Mid(rear_d_min, rear_d_max)]))
    /\ UNCHANGED <<vehicle, target, torque_arm_height, front_d_min, front_d_max,
                   rear_d_min, rear_d_max, front_iter, rear_iter, calls,
                   front_at_call, rear_at_call, band_seen, call, extVars>>

Next == Call \/ FrontIteration \/ FrontExit \/ RearIteration \/ Final

Spec == Init /\ [][Next]_vars

(***************************************************************************)
(* Calls of the arb_calc functions                                         *)
(***************************************************************************)
\* Longest argument list passed to series_rate
MaxRates == 3

Rates == { Zero, FromInt(-5), FromInt(49), FromInt(64), Dec(35000, 3) }

Diameters == { Zero, Neg(Dec(10, 1000)), Dec(14, 1000), Dec(22, 1000),
               [m |-> Dec(22, 1000).m - 1, e |-> Dec(22, 1000).e] }

Lengths == { Zero, Neg(Dec(25, 100)), Dec(25, 100), Dec(9, 10) }

Ratios == { Zero, Neg(Dec(95, 100)), Dec(95, 100), Dec(155, 100) }

Stiffnesses == { Zero, FromInt(-20000), FromInt(20000), FromInt(31587) }

ArmRates == { None, <<FromInt(20000)>>, <<FromInt(-20000)>> }

RECURSIVE SeqsUpTo(_, _)
SeqsUpTo(S, n) ==
    IF n = 0 THEN { <<>> }
    ELSE SeqsUpTo(S, n - 1) \cup { Append(q, x) : q \in { t \in SeqsUpTo(S, n - 1) : Len(t) = n - 1 }, x \in S }

CallSeriesRate ==
    \E rates \in SeqsUpTo(Rates, MaxRates) :
        /\ call = NoCall
        /\ call' = [fn |-> "series_rate",
                     args |-> rates,
                     out |-> series_rate(rates)]
        /\ UNCHANGED <<calcVars, extVars>>

CallPolarSecondMoment ==
    \E d_od \in Diameters, d_id \in Diameters :
        /\ call = NoCall
        /\ call' = [fn |-> "polar_second_moment",
                     args |-> <<d_od, d_id>>,
                     out |-> polar_second_moment(d_od, d_id)]
        /\ UNCHANGED <<calcVars, extVars>>

CallAreaMomentRound ==
    \E d_od \in Diameters, d_id \in Diameters :
        /\ call = NoCall
        /\ call' = [fn |-> "area_moment_round",
                     args |-> <<d_od, d_id>>,
                     out |-> area_moment_round(d_od, d_id)]
        /\ UNCHANGED <<calcVars, extVars>>

CallTorsionStiffness ==
    \E d_od \in Diameters, center_length \in Lengths, arm_length \in Lengths :
        /\ call = NoCall
        /\ call' = [fn |-> "torsion_stiffness",
                     args |-> <<Steel_G, d_od, center_length, arm_length, Zero>>,
                     out |-> torsion_stiffness(Steel_G, d_od, center_length, arm_length, Zero)]
        /\ UNCHANGED <<calcVars, extVars>>

CallCantileverStiffness ==
    \E d_od \in Diameters, arm_length \in Lengths :
        /\ call = NoCall
        /\ call' = [fn |-> "cantilever_stiffness",
                     args |-> <<Steel_E, d_od, arm_length, Zero>>,
                     out |-> cantilever_stiffness(Steel_E, d_od, arm_length, Zero)]
        /\ UNCHANGED <<calcVars, extVars>>

CallArbTipRate ==
    \E d_od \in {Dec(14, 1000), Dec(22, 1000)}, arm_length \in Lengths,
       arm_rate_left \in ArmRates, arm_rate_right \in ArmRates :
        /\ call = NoCall
        /\ call' = [fn |-> "arb_tip_rate",
                     args |-> <<Steel_G, Steel_E, d_od, Dec(9, 10), arm_length, Zero, arm_rate_left, arm_rate_right>>,
                     out |-> arb_tip_rate(Steel_G, Steel_E, d_od, Dec(9, 10), arm_length, Zero, arm_rate_left, arm_rate_right)]
        /\ UNCHANGED <<calcVars, extVars>>

CallWheelRateFromTip ==
    \E tip_rate \in Stiffnesses, motion_ratio \in Ratios :
        /\ call = NoCall
        /\ call' = [fn |-> "wheel_rate_from_tip",
                     args |-> <<tip_rate, motion_ratio>>,
                     out |-> wheel_rate_from_tip(tip_rate, motion_ratio)]
        /\ UNCHANGED <<calcVars, extVars>>

CallRollStiffnessFromWheelRate ==
    \E wheel_rate \in Stiffnesses, track_width \in Ratios :
        /\ call = NoCall
        /\ call' = [fn |-> "roll_stiffness_from_wheel_rate",
                     args |-> <<wheel_rate, track_width>>,
                     out |-> roll_stiffness_from_wheel_rate(wheel_rate, track_width)]
        /\ UNCHANGED <<calcVars, extVars>>

CallRollGradientDegPerG ==
    \E total_roll_stiffness \in Stiffnesses :
        /\ call = NoCall
        /\ call' = [fn |-> "roll_gradient_deg_per_g",
                     args |-> <<total_roll_stiffness, FromInt(1300), Dec(4835, 10000)>>,
                     out |-> roll_gradient_deg_per_g(total_roll_stiffness, FromInt(1300), Dec(4835, 10000))]
        /\ UNCHANGED <<calcVars, extVars>>

InitCalc ==
    /\ InitCalculator
    /\ front.arb_d_od = Dec(20, 1000)
    /\ rear.arb_d_od = Dec(20, 1000)
    /\ rear.track_width = Dec(153, 100)
    /\ rear.arb_arm_length = Dec(22, 100)
    /\ target.target_deg_per_g_min = Dec(35, 10)
    /\ call = NoCall

NextCalc ==
    \/ CallSeriesRate
    \/ CallPolarSecondMoment
    \/ CallAreaMomentRound
    \/ CallTorsionStiffness
    \/ CallCantileverStiffness
    \/ CallArbTipRate
    \/ CallWheelRateFromTip
    \/ CallRollStiffnessFromWheelRate
    \/ CallRollGradientDegPerG

SpecCalc == InitCalc /\ [][NextCalc]_vars
(***************************************************************************)
(* Floats with the special values of a Python float                        *)
(*                                                                         *)
(* The strain-energy calculator divides by quantities that can vanish and  *)
(* carries no validation, so its values can leave the finite range.  A     *)
(* value is a finite float ("num"), an infinity ("inf", its sign in f), a  *)
(* not-a-number ("nan"), or the exception that the expression raised       *)
(* ("err").  Underflow is not modelled.                                    *)
(***************************************************************************)
\* sys.float_info.max_exp: a finite float is below 2^DBL_MAX_EXP in magnitude
DBL_MAX_EXP == 1024

XNum(f) == [k |-> "num", f |-> f, msg |-> ""]

XInf(sign) == [k |-> "inf", f |-> FromInt(sign), msg |-> ""]

XNaN == [k |-> "nan", f |-> Zero, msg |-> ""]

XErr(msg) == [k |-> "err", f |-> Zero, msg |-> msg]

Overflows(f) == f.m # 0 /\ f.e + MantBits > DBL_MAX_EXP

\* The result of an operation whose exact result rounds to f
XRound(f) == IF Overflows(f) THEN XInf(Sign(f.m)) ELSE XNum(f)

XIsZero(x) == x.k = "num" /\ x.f.m = 0

\* Operands are evaluated left to right: the left one's exception wins
FirstErr(x, y) == IF x.k = "err" THEN x ELSE y

XNeg(x) == [x EXCEPT !.f = Neg(x.f)]

XMul(x, y) ==
    IF x.k = "err" \/ y.k = "err" THEN FirstErr(x, y)
    ELSE IF x.k = "nan" \/ y.k = "nan" THEN XNaN
    ELSE IF x.k = "inf" \/ y.k = "inf"
         THEN IF XIsZero(x) \/ XIsZero(y) THEN XNaN ELSE XInf(Sign(x.f.m) * Sign(y.f.m))
    ELSE XRound(Mul(x.f, y.f))

\* x / y: Python raises ZeroDivisionError for a zero divisor, whatever x is
XDiv(x, y) ==
    IF x.k = "err" \/ y.k = "err" THEN FirstErr(x, y)
    ELSE IF XIsZero(y) THEN XErr("float division by zero")
    ELSE IF x.k = "nan" \/ y.k = "nan" THEN XNaN
    ELSE IF x.k = "inf"
         THEN IF y.k = "inf" THEN XNaN ELSE XInf(Sign(x.f.m) * Sign(y.f.m))
    ELSE IF y.k = "inf" THEN XNum(Zero)
    ELSE XRound(Div(x.f, y.f))

XAdd(x, y) ==
    IF x.k = "err" \/ y.k = "err" THEN FirstErr(x, y)
    ELSE IF x.k = "nan" \/ y.k = "nan" THEN XNaN
    ELSE IF x.k = "inf"
         THEN IF y.k = "inf" /\ Sign(x.f.m) # Sign(y.f.m) THEN XNaN ELSE x
    ELSE IF y.k = "inf" THEN y
    ELSE XRound(Add(x.f, y.f))

XSub(x, y) == XAdd(x, XNeg(y))

\* x ** 2, x ** 3: float_pow raises OverflowError when a finite x overflows
XPowFinite(f) ==
    IF Overflows(f) THEN XErr("(34, 'Numerical result out of range')") ELSE XNum(f)

XSq(x) ==
    IF x.k = "err" \/ x.k = "nan" THEN x
    ELSE IF x.k = "inf" THEN XInf(1)
    ELSE XPowFinite(Sq(x.f))

XCube(x) ==
    IF x.k = "err" \/ x.k = "nan" \/ x.k = "inf" THEN x
    ELSE XPowFinite(Cube(x.f))

XPow4(x) ==
    IF x.k = "err" \/ x.k = "nan" THEN x
    ELSE IF x.k = "inf" THEN XInf(1)
    ELSE XPowFinite(Pow4(x.f))

\* max(0, x): x when x > 0, else the first argument 0
XMax0(x) ==
    IF x.k = "err" THEN x
    ELSE IF x.k = "inf" THEN (IF x.f.m > 0 THEN x ELSE XNum(Zero))
    ELSE IF x.k = "num" /\ x.f.m > 0 THEN x
    ELSE XNum(Zero)

XInt(n) == XNum(FromInt(n))

XHalfPi == XNum(Div(Pi, FromInt(2)))

(***************************************************************************)
(* math.sqrt, math.atan, math.sin, math.cos, math.tan                      *)
(*                                                                         *)
(* sqrt is correctly rounded.  The trigonometric functions are the usual   *)
(* rational approximations (a few parts in a thousand), evaluated in the   *)
(* modelled arithmetic: the calculator only needs them to be functions.    *)
(***************************************************************************)
\* The largest s with s * s <= n, searched among s < 2^bits
RECURSIVE ISqrtFrom(_, _, _)
ISqrtFrom(n, s, bit) ==
    IF bit = 0 THEN s
    ELSE IF (s + bit) * (s + bit) <= n THEN ISqrtFrom(n, s + bit, bit \div 2)
    ELSE ISqrtFrom(n, s, bit \div 2)

\* sqrt of m * 2^e for m > 0 and e even
SqrtEven(m, e) ==
    RoundFloat(ISqrtFrom(m, 0, Pow2(MantBits + 2)), e \div 2,
               ISqrtFrom(m, 0, Pow2(MantBits + 2)) * ISqrtFrom(m, 0, Pow2(MantBits + 2)) # m)

\* sqrt of a positive finite float
SqrtPos(f) ==
    IF (f.e - (MantBits + 2)) % 2 = 0
    THEN SqrtEven(f.m * Pow2(MantBits + 2), f.e - (MantBits + 2))
    ELSE SqrtEven(f.m * Pow2(MantBits + 3), f.e - (MantBits + 3))

XSqrt(x) ==
    IF x.k = "err" \/ x.k = "nan" THEN x
    ELSE IF x.f.m < 0 THEN XErr("math domain error")
    ELSE IF x.k = "inf" \/ x.f.m = 0 THEN x
    ELSE XNum(SqrtPos(x.f))

\* atan on [0, 1]: x * (pi/4 + 0.273 * (1 - x))
AtanUnit(f) ==
    Mul(f, Add(Div(Pi, FromInt(4)), Mul(Dec(273, 1000), Sub(FromInt(1), f))))

\* atan of a finite float f >= 0
AtanPos(f) ==
    IF Le(f, FromInt(1)) THEN AtanUnit(f)
    ELSE Sub(Div(Pi, FromInt(2)), AtanUnit(Div(FromInt(1), f)))

XAtan(x) ==
    IF x.k = "err" \/ x.k = "nan" THEN x
    ELSE IF x.k = "inf" THEN (IF x.f.m > 0 THEN XHalfPi ELSE XNeg(XHalfPi))
    ELSE IF x.f.m < 0 THEN XNum(Neg(AtanPos(Neg(x.f))))
    ELSE XNum(AtanPos(x.f))

\* sin on [0, pi]: 16 x (pi - x) / (5 pi^2 - 4 x (pi - x))
SinHalfTurn(f) ==
    Div(Mul(FromInt(16), Mul(f, Sub(Pi, f))),
        Sub(Mul(FromInt(5), Sq(Pi)), Mul(FromInt(4), Mul(f, Sub(Pi, f)))))

\* sin of a finite float f in [0, 2 pi]
SinPos(f) ==
    IF Le(f, Pi) THEN SinHalfTurn(f) ELSE Neg(SinHalfTurn(Sub(f, Pi)))

\* sin of a finite float in [-2 pi, 2 pi]
SinFinite(f) == IF f.m < 0 THEN Neg(SinPos(Neg(f))) ELSE SinPos(f)

XSin(x) ==
    IF x.k = "err" \/ x.k = "nan" THEN x
    ELSE IF x.k = "inf" THEN XErr("math domain error")
    ELSE XNum(SinFinite(x.f))

\* cos x = sin(x + pi/2)
XCos(x) ==
    IF x.k = "err" \/ x.k = "nan" THEN x
    ELSE IF x.k = "inf" THEN XErr("math domain error")
    ELSE XNum(SinFinite(Add(x.f, Div(Pi, FromInt(2)))))

\* tan x = sin x / cos x, for |x| < pi/2
XTan(x) ==
    IF x.k = "err" \/ x.k = "nan" THEN x
    ELSE IF x.k = "inf" THEN XErr("math domain error")
    ELSE XNum(Div(SinFinite(x.f), SinFinite(Add(x.f, Div(Pi, FromInt(2))))))

(***************************************************************************)
(* arb_dia1.py, arb_dia.py, roll_stiff_new_arb_dia.py: ARBCalculator       *)
(*                                                                         *)
(* calculate is straight-line code: each group of assignments below adds   *)
(* its C-values to the dictionary r built so far.  An exception raised by  *)
(* one expression is carried as an "err" value and leaves the call at the  *)
(* end, which is equivalent because nothing is stored before the end.      *)
(***************************************************************************)
DEFAULT_E == FromInt(210000)

DEFAULT_G == FromInt(80000)

XPi == XNum(Pi)

\* A fallback that forgets the walls of at least half the diameter
SolidOrHollowThin(material_diameter, wall_thickness) ==
    IF wall_thickness = None THEN Div(material_diameter, FromInt(2))
    ELSE IF Le(wall_thickness[1], Zero) THEN Div(material_diameter, FromInt(2))
    ELSE wall_thickness[1]

\* "Handle solid vs hollow bar": the wall thickness that is stored as C21
SolidOrHollow(material_diameter, wall_thickness) ==
    IF wall_thickness = None THEN Div(material_diameter, FromInt(2))
    ELSE IF Le(wall_thickness[1], Zero)
            \/ Ge(wall_thickness[1], Div(material_diameter, FromInt(2)))
         THEN Div(material_diameter, FromInt(2))
    ELSE wall_thickness[1]

\* "Store inputs" of roll_stiff_new_arb_dia.py, which has no k_supplier
StoreInputsNew(i) ==
    [C14 |-> XNum(i.eyeball_span),
     C15 |-> XNum(i.shoulder_span),
     C16 |-> XNum(i.clamp_span),
     C17 |-> XNum(i.arm_length),
     C18 |-> XNum(i.shoulder_R),
     C19 |-> XNum(i.stroke),
     C20 |-> XNum(i.material_diameter),
     C21 |-> XNum(SolidOrHollow(i.material_diameter, i.wall_thickness)),
     C37 |-> XNum(IF i.E = None THEN DEFAULT_E ELSE i.E[1]),
     C38 |-> XNum(IF i.G = None THEN DEFAULT_G ELSE i.G[1])]

\* "Store inputs" of arb_dia.py and arb_dia1.py
StoreInputs(i) == StoreInputsNew(i) @@ [C7 |-> XNum(i.k_supplier)]

\* C22 (linear mass), C39 (inner diameter) and the half spans
LinearMassAndBore(r) ==
    r @@ [C22 |-> XDiv(XMul(XMul(XSub(XMul(XSq(XDiv(r.C20, XInt(2))), XPi),
                                      XMul(XSq(XDiv(XSub(r.C20, r.C21), XInt(2))), XPi)),
                                 r.C14),
                            XNum(Dec(781, 100))),
                       XInt(1000000)),
          C39 |-> XMax0(XSub(r.C20, XMul(XInt(2), r.C21))),
          C45 |-> XDiv(r.C14, XInt(2)),
          C47 |-> XDiv(r.C16, XInt(2)),
          C48 |-> r.C17,
          C49 |-> XDiv(XSub(r.C14, r.C15), XInt(2))]

\* pi * (C20 ** 4 - C39 ** 4)
SectionCore(r) == XMul(XPi, XSub(XPow4(r.C20), XPow4(r.C39)))

\* "Section geometry (C39-C43)" and the bend angle C51
SectionGeometry(r) ==
    r @@ [C40 |-> XDiv(SectionCore(r), XInt(64)),
          C41 |-> XDiv(SectionCore(r), XMul(XInt(32), r.C20)),
          C42 |-> XDiv(SectionCore(r), XInt(32)),
          C43 |-> XDiv(SectionCore(r), XMul(XInt(16), r.C20)),
          C51 |-> XAtan(XDiv(r.C48, r.C49))]

\* C55 (half bend angle) and C50 (tangent offset)
BendOffsets(r) ==
    r @@ [C55 |-> XDiv(r.C51, XInt(2)),
          C50 |-> XMul(r.C18, XTan(XDiv(r.C51, XInt(2))))]

\* C44 (effective straight length), C46, C56
StraightLengths(r) ==
    r @@ [C44 |-> XSub(XSqrt(XAdd(XSq(r.C48), XSq(r.C49))), r.C50),
          C46 |-> XSub(XDiv(r.C15, XInt(2)), r.C50),
          C56 |-> XSub(r.C51, r.C55)]

\* sin(2 * C51) / 2
HalfSinDouble(r) == XDiv(XSin(XMul(XInt(2), r.C51)), XInt(2))

\* C49 + C18 * tan(C51 / 2)
MiddleArm(r) == XAdd(r.C49, XMul(r.C18, XTan(XDiv(r.C51, XInt(2)))))

\* The terms of the five energy sections
EnergyTerms(r) ==
    r @@ [C52 |-> XAtan(XDiv(r.C18, r.C44)),
          C53 |-> XAtan(XDiv(r.C44, r.C18)),
          C54 |-> XAtan(XDiv(XNeg(r.C44), r.C18)),
          C57 |-> XDiv(XCube(r.C44), XMul(XMul(XInt(3), r.C37), r.C40)),
          C58 |-> XDiv(XMul(XSq(r.C48), r.C46), XMul(r.C38, r.C42)),
          C60 |-> XDiv(r.C18, XMul(r.C37, r.C40)),
          C61 |-> XMul(XDiv(XSq(r.C44), XInt(2)), XAdd(r.C51, HalfSinDouble(r))),
          C62 |-> XMul(XMul(r.C44, r.C18), XSq(XSin(r.C51))),
          C63 |-> XMul(XDiv(XSq(r.C18), XInt(2)), XSub(r.C51, HalfSinDouble(r))),
          C65 |-> XDiv(r.C18, XMul(r.C38, r.C42)),
          C66 |-> XDiv(XMul(XSub(r.C51, HalfSinDouble(r)), XSq(r.C44)), XInt(2)),
          C67 |-> XMul(XMul(XSq(XSub(XCos(r.C51), XInt(1))), r.C44), r.C18),
          C68 |-> XMul(XSq(r.C18),
                       XAdd(XSub(XDiv(XMul(XInt(3), r.C51), XInt(2)),
                                 XMul(XInt(2), XSin(r.C51))),
                            XMul(XNum(Dec(25, 100)), XSin(XMul(XInt(2), r.C51))))),
          C70 |-> XDiv(XSub(r.C46, r.C47), XMul(r.C37, r.C40)),
          C71 |-> XSq(MiddleArm(r)),
          C72 |-> XMul(XSub(r.C46, r.C47), MiddleArm(r)),
          C73 |-> XDiv(XSq(XSub(r.C46, r.C47)), XInt(3)),
          C75 |-> XDiv(XMul(XSq(XSub(r.C45, r.C47)), r.C47),
                       XMul(XMul(XInt(3), r.C37), r.C40))]

\* The section totals A (C59), B (C64), C (C69), D (C74); E is C75
SectionEnergies(r) ==
    r @@ [C59 |-> XAdd(r.C57, r.C58),
          C64 |-> XMul(XAdd(XAdd(r.C61, r.C62), r.C63), r.C60),
          C69 |-> XMul(r.C65, XAdd(XAdd(r.C66, r.C67), r.C68)),
          C74 |-> XMul(r.C70, XAdd(XAdd(r.C71, r.C72), r.C73))]

\* A total that leaves out the outer section E
TotalEnergyWithoutE(r) ==
    r @@ [C76 |-> XAdd(XAdd(XAdd(r.C59, r.C64), r.C69), r.C74)]

\* C76 = C59 + C64 + C69 + C74 + C75
TotalEnergy(r) ==
    r @@ [C76 |-> XAdd(XAdd(XAdd(XAdd(r.C59, r.C64), r.C69), r.C74), r.C75)]

\* C28 = 1 / (2 * C76)
SpringRate(r) == r @@ [C28 |-> XDiv(XInt(1), XMul(XInt(2), r.C76))]

\* C9 = C28 * 9.80665
WithGravity(r) == r @@ [C9 |-> XMul(r.C28, XNum(Dec(980665, 100000)))]

\* C10 = C7 / C9
SupplierRatio(r) == r @@ [C10 |-> XDiv(r.C7, r.C9)]

\* An adjusted rate that is the calculated rate C9
CalculatedAsAdjusted(r) == r @@ [C8 |-> r.C9]

\* C8 = C9 * C10
AdjustedRate(r) == r @@ [C8 |-> XMul(r.C9, r.C10)]

\* The C-values both calculators share, C14 .. C76 and C28
EnergyChain(r) ==
    SpringRate(TotalEnergy(SectionEnergies(EnergyTerms(StraightLengths(
        BendOffsets(SectionGeometry(LinearMassAndBore(r))))))))

\* The first exception among the values of r taken in the order keys
RECURSIVE FirstRaised(_, _, _)
FirstRaised(r, keys, n) ==
    IF n > Len(keys) THEN ""
    ELSE IF r[keys[n]].k = "err" THEN r[keys[n]].msg
    ELSE FirstRaised(r, keys, n + 1)

\* The order in which calculate assigns its C-values
AssignmentOrder ==
    << "C22", "C39", "C40", "C41", "C42", "C43", "C45", "C48", "C49", "C51", "C55",
       "C50", "C44", "C46", "C47", "C52", "C53", "C54", "C56", "C57", "C58", "C59",
       "C60", "C61", "C62", "C63", "C64", "C65", "C66", "C67", "C68", "C69", "C70",
       "C71", "C72", "C73", "C74", "C75", "C76", "C28" >>

\* return r, unless an expression raised
Returns(r, keys) ==
    IF FirstRaised(r, keys, 1) = "" THEN Ok(r) ELSE Raise(FirstRaised(r, keys, 1))

\* ARBCalculator.calculate of arb_dia1.py
calculate(i) ==
    Returns(AdjustedRate(SupplierRatio(WithGravity(EnergyChain(StoreInputs(i))))),
            AssignmentOrder \o << "C9", "C10", "C8" >>)

\* ARBCalculator.calculate of arb_dia.py
calculate_arb_dia(i) ==
    Returns(AdjustedRate(SupplierRatio(WithGravity(EnergyChain(StoreInputs(i))))),
            AssignmentOrder \o << "C9", "C10", "C8" >>)

\* A third calculator that always takes the bar as solid
calculate_new_solid(i) ==
    Returns(EnergyChain(StoreInputsNew([i EXCEPT !.wall_thickness = None])), AssignmentOrder)

\* ARBCalculator.calculate of roll_stiff_new_arb_dia.py
calculate_new(i) == Returns(EnergyChain(StoreInputsNew(i)), AssignmentOrder)

\* get_summary of arb_dia1.py on the stored results
get_summary(results) ==
    IF results = <<>>
    THEN Raise("No calculation results available. Run calculate() first.")
    ELSE Ok([spring_rate_calculated |-> results[1].C28,
             spring_rate_with_gravity |-> results[1].C9,
             spring_rate_adjusted |-> results[1].C8,
             supplier_calc_ratio |-> results[1].C10,
             bar_mass |-> results[1].C22,
             inner_diameter |-> results[1].C39,
             second_moment_area_bending |-> results[1].C40,
             polar_moment_area_torsion |-> results[1].C42,
             bend_angle_rad |-> results[1].C51,
             effective_straight_length |-> results[1].C44,
             energy_straight_section |-> results[1].C59,
             energy_bend_bending |-> results[1].C64,
             energy_bend_torsion |-> results[1].C69,
             energy_middle_section |-> results[1].C74,
             energy_outer_section |-> results[1].C75,
             total_strain_energy |-> results[1].C76])

\* get_summary of arb_dia.py
get_summary_arb_dia(results) ==
    IF results = <<>>
    THEN Raise("No calculation results available. Run calculate() first.")
    ELSE Ok([k_calculated_N_per_mm |-> results[1].C28,
             k_with_gravity_N_per_mm |-> results[1].C9,
             supplier_to_calc_ratio |-> results[1].C10,
             k_adjusted_N_per_mm |-> results[1].C8,
             linear_mass_kg |-> results[1].C22,
             total_energy_sum |-> results[1].C76,
             energy_section_A |-> results[1].C59,
             energy_section_B |-> results[1].C64,
             energy_section_C |-> results[1].C69,
             energy_section_D |-> results[1].C74,
             energy_section_E |-> results[1].C75])

\* get_summary of roll_stiff_new_arb_dia.py
get_summary_new(results) ==
    IF results = <<>>
    THEN Raise("No calculation results available. Run calculate() first.")
    ELSE Ok([spring_rate_calculated |-> results[1].C28,
             bar_mass |-> results[1].C22,
             inner_diameter |-> results[1].C39,
             second_moment_area_bending |-> results[1].C40,
             polar_moment_area_torsion |-> results[1].C42,
             bend_angle_rad |-> results[1].C51,
             effective_straight_length |-> results[1].C44,
             energy_straight_section |-> results[1].C59,
             energy_bend_bending |-> results[1].C64,
             energy_bend_torsion |-> results[1].C69,
             energy_middle_section |-> results[1].C74,
             energy_outer_section |-> results[1].C75,
             total_strain_energy |-> results[1].C76])

(***************************************************************************)
(* Calls of ARBCalculator.calculate and get_summary on one calculator      *)
(***************************************************************************)
\* The default arguments of calculate
DefaultInputs ==
    [k_supplier |-> FromInt(40),
     eyeball_span |-> Dec(11302, 10),
     shoulder_span |-> FromInt(601),
     clamp_span |-> FromInt(505),
     arm_length |-> Dec(2015, 10),
     shoulder_R |-> FromInt(55),
     stroke |-> FromInt(25),
     material_diameter |-> FromInt(26),
     wall_thickness |-> None,
     E |-> None,
     G |-> None]

\* 2^-266 mm, about 1e-80: the section moments leave the range where
\* dividing by them stays finite
TinyDiameter == [m |-> Pow2(MantBits - 1), e |-> -266 - (MantBits - 1)]

\* 2^-40 mm: a wall so thin that material_diameter - 2 * wall rounds to
\* material_diameter
TinyWall == [m |-> Pow2(MantBits - 1), e |-> -40 - (MantBits - 1)]

WallThicknesses ==
    { None, <<Zero>>, <<FromInt(-1)>>, <<FromInt(3)>>, <<Dec(65, 10)>>,
      <<FromInt(13)>>, <<FromInt(20)>>, <<TinyWall>> }

EnergyInputs ==
    { [DefaultInputs EXCEPT !.wall_thickness = w] : w \in WallThicknesses }
    \cup { [DefaultInputs EXCEPT !.material_diameter = TinyDiameter],
           [DefaultInputs EXCEPT !.material_diameter = FromInt(-26)],
           [DefaultInputs EXCEPT !.material_diameter = FromInt(20), !.wall_thickness = <<FromInt(3)>>],
           [DefaultInputs EXCEPT !.material_diameter = Zero],
           [DefaultInputs EXCEPT !.eyeball_span = FromInt(601)],
           [DefaultInputs EXCEPT !.shoulder_R = Zero],
           [DefaultInputs EXCEPT !.E = <<Zero>>],
           [DefaultInputs EXCEPT !.G = <<Zero>>],
           [DefaultInputs EXCEPT !.arm_length = FromInt(150)],
           [DefaultInputs EXCEPT !.clamp_span = FromInt(400)],
           [DefaultInputs EXCEPT !.shoulder_span = FromInt(700)],
           [DefaultInputs EXCEPT !.k_supplier = Zero],
           [DefaultInputs EXCEPT !.k_supplier = FromInt(55), !.wall_thickness = <<FromInt(3)>>],
           [DefaultInputs EXCEPT !.E = <<FromInt(206000)>>, !.G = <<FromInt(79000)>>] }

\* A calculate that empties self.results on entry and stores on success
CalculateClearingFirst ==
    \E i \in EnergyInputs :
        LET Store(out) ==
                /\ call' = [fn |-> "calculate", args |-> <<i>>, out |-> out]
                /\ arb_results' = IF out.ok THEN <<out.v>> ELSE <<>>
        IN  /\ Store(calculate(i))
            /\ UNCHANGED <<calcVars, tire_front, tire_rear>>

\* calculate(...) on the arb_dia1 calculator: self.results = r; return r
Calculate ==
    \E i \in EnergyInputs :
        LET Store(out) ==
                /\ call' = [fn |-> "calculate", args |-> <<i>>, out |-> out]
                /\ arb_results' = IF out.ok THEN <<out.v>> ELSE arb_results
        IN  /\ Store(calculate(i))
            /\ UNCHANGED <<calcVars, tire_front, tire_rear>>

\* get_summary() on the same calculator
GetSummary ==
    /\ call' = [fn |-> "get_summary", args |-> <<>>, out |-> get_summary(arb_results)]
    /\ UNCHANGED <<calcVars, extVars>>

NextEnergy == Calculate \/ GetSummary

SpecEnergy == InitCalc /\ [][NextEnergy]_vars

(***************************************************************************)
(* understeer_gradient_v2.py: K&C selection and the understeer budget      *)
(***************************************************************************)
\* math.radians
Radians(x) == Mul(x, Div(Pi, FromInt(180)))

\* KCConstraints(): the default ranges, each (min, max)
KCConstraints ==
    [roll_steer_front |-> <<FromInt(3), Dec(65, 10)>>,
     roll_steer_rear |-> <<FromInt(-8), FromInt(-3)>>,
     roll_camber_front |-> <<FromInt(80), FromInt(90)>>,
     roll_camber_rear |-> <<FromInt(50), FromInt(65)>>,
     lateral_force_steer_compliance_front |-> <<Dec(8, 1000), Dec(5, 100)>>,
     lateral_force_steer_compliance_rear |-> <<Dec(15, 1000), Dec(4, 100)>>,
     lateral_force_camber_compliance_front |-> <<Dec(1, 10), Dec(3, 10)>>,
     lateral_force_camber_compliance_rear |-> <<Dec(15, 100), Dec(4, 10)>>,
     aligning_torque_steer_compliance_front |-> <<Dec(2, 10), Dec(4, 10)>>,
     aligning_torque_steer_compliance_rear |-> <<Dec(6, 100), Dec(1, 10)>>]

\* x * math.pi/180 / 1000: deg/kN to rad/N
PerNewton(x) == Div(Div(Mul(x, Pi), FromInt(180)), FromInt(1000))

\* x * math.pi/180 / 100: deg/100Nm to rad/Nm
PerNewtonMetre(x) == Div(Div(Mul(x, Pi), FromInt(180)), FromInt(100))

\* The axle with the five K&C coefficients taken at index s[..] of their ranges
WithKc(axle, kc, side, s) ==
    [axle EXCEPT
        !.roll_steer_gradient = kc["roll_steer_" \o side][s["roll_steer_" \o side]],
        !.camber_per_roll = kc["roll_camber_" \o side][s["roll_camber_" \o side]],
        !.lateral_force_steer_compliance =
            PerNewton(kc["lateral_force_steer_compliance_" \o side]
                        [s["lateral_force_steer_compliance_" \o side]]),
        !.lateral_force_camber_compliance =
            PerNewton(kc["lateral_force_camber_compliance_" \o side]
                        [s["lateral_force_camber_compliance_" \o side]]),
        !.aligning_torque_steer_compliance =
            PerNewtonMetre(kc["aligning_torque_steer_compliance_" \o side]
                             [s["aligning_torque_steer_compliance_" \o side]])]

\* A selection that takes every front coefficient at its minimum
FrontAtMinimum ==
    [roll_steer_front |-> 1, roll_steer_rear |-> 1,
     roll_camber_front |-> 1, roll_camber_rear |-> 1,
     lateral_force_steer_compliance_front |-> 1,
     lateral_force_steer_compliance_rear |-> 1,
     lateral_force_camber_compliance_front |-> 1,
     lateral_force_camber_compliance_rear |-> 1,
     aligning_torque_steer_compliance_front |-> 1,
     aligning_torque_steer_compliance_rear |-> 1]

\* optimize_kc_parameters takes front [1] (the maximum) and rear [0] (the minimum)
FrontMaxRearMin ==
    [roll_steer_front |-> 2, roll_steer_rear |-> 1,
     roll_camber_front |-> 2, roll_camber_rear |-> 1,
     lateral_force_steer_compliance_front |-> 2,
     lateral_force_steer_compliance_rear |-> 1,
     lateral_force_camber_compliance_front |-> 2,
     lateral_force_camber_compliance_rear |-> 1,
     aligning_torque_steer_compliance_front |-> 2,
     aligning_torque_steer_compliance_rear |-> 1]

\* self.front and self.rear after optimize_kc_parameters(kc_constraints)
optimize_kc_parameters(f, r, kc_constraints) ==
    [front |-> WithKc(f, kc_constraints, "front", FrontMaxRearMin),
     rear |-> WithKc(r, kc_constraints, "rear", FrontMaxRearMin)]

\* UndersteerBudget(...)
UndersteerBudget(roll_steer, roll_camber, lateral_force_compliance_steer, lateral_force_compliance_camber, aligning_torque_compliance_steer, weight_distribution, aligning_torque_steer) ==
    [roll_steer |-> roll_steer,
     roll_camber |-> roll_camber,
     lateral_force_compliance_steer |-> lateral_force_compliance_steer,
     lateral_force_compliance_camber |-> lateral_force_compliance_camber,
     aligning_torque_compliance_steer |-> aligning_torque_compliance_steer,
     weight_distribution |-> weight_distribution,
     aligning_torque_steer |-> aligning_torque_steer]

\* UndersteerBudget(): every component 0.0
DefaultBudget == UndersteerBudget(Zero, Zero, Zero, Zero, Zero, Zero, Zero)

\* A total that leaves the weight-distribution term out
total_without_weight(b) ==
    Add(Add(Add(Add(Add(b.roll_steer, b.roll_camber),
                        b.lateral_force_compliance_steer),
                    b.lateral_force_compliance_camber),
                b.aligning_torque_compliance_steer),
        b.aligning_torque_steer)

\* UndersteerBudget.total: the sum, added left to right
total(b) ==
    Add(Add(Add(Add(Add(Add(b.roll_steer, b.roll_camber),
                            b.lateral_force_compliance_steer),
                        b.lateral_force_compliance_camber),
                    b.aligning_torque_compliance_steer),
                b.weight_distribution),
        b.aligning_torque_steer)

\* The divisors of calculate_understeer_budget
BudgetDivisors(v, tf, tr) ==
    { tf.cornering_stiffness, tr.cornering_stiffness,
      Mul(v.wheelbase, Add(tf.cornering_stiffness, tr.cornering_stiffness)) }

\* A budget whose roll-steer term reads the bar diameters as well
calculate_understeer_budget_of_bar(v, f, r, tf, tr, roll_gradient, lateral_accel_g) ==
    LET roll_grad_rad == Radians(roll_gradient)
    IN  Ok(UndersteerBudget(
            Degrees(Mul(Sub(Radians(Div(f.roll_steer_gradient, FromInt(100))),
                            Radians(Div(r.roll_steer_gradient, FromInt(100)))),
                        Mul(roll_grad_rad, Add(f.arb_d_od, r.arb_d_od)))),
            Zero, Zero, Zero, Zero, Zero, Zero))

\* calculate_understeer_budget(roll_gradient, lateral_accel_g) on
\* the calculator's vehicle v, axles f and r, tires tf and tr
calculate_understeer_budget(v, f, r, tf, tr, roll_gradient, lateral_accel_g) ==
    LET roll_grad_rad == Radians(roll_gradient)
        F_yf == Mul(v.front_weight, lateral_accel_g)
        F_yr == Mul(v.rear_weight, lateral_accel_g)
        epsilon_f == Radians(Div(f.roll_steer_gradient, FromInt(100)))
        epsilon_r == Radians(Div(r.roll_steer_gradient, FromInt(100)))
        gamma_f_per_roll == Radians(Div(f.camber_per_roll, FromInt(100)))
        gamma_r_per_roll == Radians(Div(r.camber_per_roll, FromInt(100)))
        camber_gain_f == Mul(Mul(gamma_f_per_roll, roll_grad_rad),
                             Div(tf.camber_stiffness, tf.cornering_stiffness))
        camber_gain_r == Mul(Mul(gamma_r_per_roll, roll_grad_rad),
                             Div(tr.camber_stiffness, tr.cornering_stiffness))
        lfcs == Sub(Mul(f.lateral_force_steer_compliance, F_yf),
                    Mul(r.lateral_force_steer_compliance, F_yr))
        lfcc_f == Div(Mul(Mul(f.lateral_force_camber_compliance, F_yf),
                          tf.camber_stiffness), tf.cornering_stiffness)
        lfcc_r == Div(Mul(Mul(r.lateral_force_camber_compliance, F_yr),
                          tr.camber_stiffness), tr.cornering_stiffness)
        AT_f == Mul(Mul(tf.pneumatic_trail, v.front_weight), lateral_accel_g)
        AT_r == Mul(Mul(tr.pneumatic_trail, v.rear_weight), lateral_accel_g)
        atcs == Sub(Mul(f.aligning_torque_steer_compliance, AT_f),
                    Mul(r.aligning_torque_steer_compliance, AT_r))
        wd == Sub(Div(v.front_weight, tf.cornering_stiffness),
                  Div(v.rear_weight, tr.cornering_stiffness))
        at_steer == Div(Add(AT_f, AT_r),
                        Mul(v.wheelbase,
                            Add(tf.cornering_stiffness, tr.cornering_stiffness)))
    IN  IF \E d \in BudgetDivisors(v, tf, tr) : d.m = 0
        THEN Raise("float division by zero")
        ELSE Ok(UndersteerBudget(
                    Degrees(Mul(Sub(epsilon_f, epsilon_r), roll_grad_rad)),
                    Degrees(Sub(camber_gain_f, camber_gain_r)),
                    Degrees(lfcs),
                    Degrees(Sub(lfcc_f, lfcc_r)),
                    Degrees(atcs),
                    Degrees(wd),
                    Degrees(at_steer)))

(***************************************************************************)
(* Calls of the K&C selection and the understeer budget on one calculator  *)
(***************************************************************************)
\* Coefficients that a selection takes at the other end than optimize_kc_parameters
MaxAway == 2

Away(s) == { k \in DOMAIN KCConstraints : s[k] # FrontMaxRearMin[k] }

\* Selections of the ten K&C coefficients at the ends of their ranges: up to
\* MaxAway coefficients, or all ten, at the other end
Selections ==
    { s \in [DOMAIN KCConstraints -> {1, 2}] :
        Cardinality(Away(s)) <= MaxAway \/ Away(s) = DOMAIN KCConstraints }

\* Roll gradients handed to calculate_understeer_budget, deg/g
RollGradients == { Dec(35, 10), FromInt(-2) }

\* Lateral accelerations handed to calculate_understeer_budget, g
LateralAccels == { FromInt(1), Dec(1, 2), FromInt(-1) }

\* The caller enters measured K&C coefficients into the axle records
SelectKc ==
    \E s \in Selections :
        /\ call = NoCall
        /\ front.lateral_force_steer_compliance = Zero
        /\ front' = WithKc(front, KCConstraints, "front", s)
        /\ rear' = WithKc(rear, KCConstraints, "rear", s)
        /\ UNCHANGED <<vehicle, target, torque_arm_height, pc,
                       front_d_min, front_d_max, rear_d_min, rear_d_max,
                       front_iter, rear_iter, current_rg, result, raised, calls,
                       front_at_call, rear_at_call, first_result, band_seen,
                       call, extVars>>

\* calc.optimize_kc_parameters(KCConstraints()): returns None
OptimizeKcParameters ==
    /\ call.fn # "optimize_kc_parameters"
    /\ front' = optimize_kc_parameters(front, rear, KCConstraints).front
    /\ rear' = optimize_kc_parameters(front, rear, KCConstraints).rear
    /\ call' = [fn |-> "optimize_kc_parameters", args |-> <<KCConstraints>>, out |-> Ok(None)]
    /\ UNCHANGED <<vehicle, target, torque_arm_height, pc,
                   front_d_min, front_d_max, rear_d_min, rear_d_max,
                   front_iter, rear_iter, current_rg, result, raised, calls,
                   front_at_call, rear_at_call, first_result, band_seen, extVars>>

\* calc.calculate_understeer_budget(roll_gradient_deg_per_g, lateral_accel_g)
CalculateUndersteerBudget ==
    \E rg \in RollGradients, ay \in LateralAccels :
        /\ call' = [fn |-> "calculate_understeer_budget",
                     args |-> <<rg, ay>>,
                     out |-> calculate_understeer_budget(vehicle, front, rear,
                                                         tire_front, tire_rear, rg, ay)]
        /\ UNCHANGED <<calcVars, extVars>>

\* The budgets at hand: a fresh UndersteerBudget() and the one just returned
BudgetsAtHand ==
    {DefaultBudget} \cup
    (IF call.fn = "calculate_understeer_budget" /\ call.out.ok THEN {call.out.v} ELSE {})

\* budget.total()
Total ==
    \E budget \in BudgetsAtHand :
        /\ call' = [fn |-> "total", args |-> <<budget>>, out |-> Ok(total(budget))]
        /\ UNCHANGED <<calcVars, extVars>>

NextBudget == SelectKc \/ OptimizeKcParameters \/ CalculateUndersteerBudget \/ Total

SpecBudget == InitCalc /\ [][NextBudget]_vars

(***************************************************************************)
(* Properties of optimize_arb_diameters (Spec)                             *)
(***************************************************************************)
Returned == pc = "done"

C1_Counts ==
    /\ front_iter <= max_iterations /\ rear_iter <= max_iterations
    /\ pc = "front_loop" => rear_iter = 0
    /\ pc = "rear_loop" => front_iter = max_iterations
    /\ Returned => (front_iter = max_iterations /\ rear_iter = max_iterations)

\* Every step inside a loop runs one more body, and a loop is left only after
\* max_iterations bodies (or by an exception)
C1_Step ==
    /\ (pc = "front_loop" /\ pc' = "front_loop") => front_iter' = front_iter + 1
    /\ (pc = "rear_loop" /\ pc' = "rear_loop") => rear_iter' = rear_iter + 1
    /\ (pc = "front_loop" /\ pc' = "rear_loop") => front_iter = max_iterations
    /\ (pc = "rear_loop" /\ pc' = "done") => rear_iter = max_iterations
    /\ pc = "front_loop" => pc' \in {"front_loop", "rear_loop", "raised"}
    /\ pc = "rear_loop" => pc' \in {"rear_loop", "done", "raised"}

\* C1: optimize_arb_diameters runs exactly max_iterations front bodies and then
\* exactly max_iterations rear bodies before it returns, and it does not leave
\* a loop early when the roll gradient is already inside the target band.
C1_FixedIterations == []C1_Counts /\ [][C1_Step]_vars

\* C1 witness: the call returned after 50 + 50 bodies although an evaluation of
\* the front loop had already met the target band
C1_Witness ==
    /\ Returned
    /\ band_seen
    /\ front_iter = max_iterations /\ rear_iter = max_iterations

\* C2: the returned dict holds the final front and rear diameters, the per-axle
\* breakdown, the total roll stiffness, the roll gradient, meets_target and one
\* auxiliary-percentage-within-max boolean per axle.
C2_ResultContents ==
    Returned =>
        /\ {"front", "rear", "total_roll_stiffness", "roll_gradient_deg_per_g",
            "meets_target"} \subseteq DOMAIN result[1]
        /\ {"spring_wheel_rate", "arb_wheel_rate", "spring_roll_stiffness",
            "arb_roll_stiffness", "aux_percent"} \subseteq DOMAIN result[1].front
        /\ {"spring_wheel_rate", "arb_wheel_rate", "spring_roll_stiffness",
            "arb_roll_stiffness", "aux_percent"} \subseteq DOMAIN result[1].rear
        /\ {"front_aux_in_range", "rear_aux_in_range"} \subseteq DOMAIN result[1]
        /\ \/ {"front_arb_d_od", "rear_arb_d_od"} \subseteq DOMAIN result[1]
           \/ ("arb_d_od" \in DOMAIN result[1].front /\ "arb_d_od" \in DOMAIN result[1].rear)

\* C3: meets_target is true exactly when target_min <= roll gradient <=
\* target_max; the roll gradient is the one of the final diameters, which are the
\* midpoints of the final brackets and the values left in the axle records; the
\* total roll stiffness is the front total plus the rear total.
C3_MeetsTarget ==
    Returned =>
        /\ result[1].meets_target =
               (/\ Sub(target.target_deg_per_g_min, result[1].roll_gradient_deg_per_g).m <= 0
                /\ Sub(result[1].roll_gradient_deg_per_g, target.target_deg_per_g_max).m <= 0)
        /\ front.arb_d_od = Mid(front_d_min, front_d_max)
        /\ rear.arb_d_od = Mid(rear_d_min, rear_d_max)
        /\ result[1].front = calculate_axle_roll_stiffness(front, calculate_arb_tip_rate(front).v).v
        /\ result[1].rear = calculate_axle_roll_stiffness(rear, calculate_arb_tip_rate(rear).v).v
        /\ result[1].total_roll_stiffness =
               Add(result[1].front.total_roll_stiffness, result[1].rear.total_roll_stiffness)
        /\ result[1].roll_gradient_deg_per_g =
               roll_gradient_deg_per_g(result[1].total_roll_stiffness, vehicle.sprung_mass,
                                       torque_arm_height).v

\* C3 witness: a call returned with meets_target true
C3_Witness == Returned /\ result[1].meets_target

PositiveAxle(axle) ==
    /\ axle.track_width.m > 0
    /\ axle.arb_center_length.m > 0
    /\ axle.arb_arm_length.m > 0
    /\ axle.spring_rate.m > 0
    /\ axle.motion_ratio.m > 0
    /\ axle.arb_shear_modulus.m > 0
    /\ axle.arb_young_modulus.m > 0
    /\ axle.arb_d_id = Zero

\* The documented preconditions, on the records as they were when the call started
ValidInputs ==
    /\ PositiveAxle(front_at_call)
    /\ PositiveAxle(rear_at_call)
    /\ rear_at_call.arb_d_od.m > 0
    /\ vehicle.sprung_mass.m > 0
    /\ torque_arm_height.m > 0

\* C4: for valid inputs optimize_arb_diameters never raises: every candidate
\* passes the section and stiffness validations and the total roll stiffness is
\* positive at every evaluation.
C4_NeverRaises ==
    (ValidInputs /\ calls >= 1) =>
        /\ pc # "raised"
        /\ raised = ""
        /\ polar_second_moment(front.arb_d_od, front.arb_d_id).ok
        /\ polar_second_moment(rear.arb_d_od, rear.arb_d_id).ok
        /\ Evaluate(front, rear).ok
        /\ Evaluate(front, rear).v.total_roll_stiffness.m > 0

\* C4 witness: a call on valid inputs returned
C4_Witness == ValidInputs /\ Returned

\* C5: when optimize_arb_diameters raises, the axle records are as they were
\* before the call.
C5_NoPartialEffect ==
    pc = "raised" => (front = front_at_call /\ rear = rear_at_call)

\* C6: a second call on the same calculator returns the same final diameters,
\* total roll stiffness, roll gradient and booleans as the first call.
C6_SecondCallSame ==
    (Returned /\ calls = 2) =>
        /\ result = first_result
        /\ front.arb_d_od = front_at_call.arb_d_od
        /\ rear.arb_d_od = rear_at_call.arb_d_od

\* A body of the front loop, or of the rear loop, has just run to its end
FrontBodyRan == pc = "front_loop" /\ front_iter' = front_iter + 1

RearBodyRan == pc = "rear_loop" /\ rear_iter' = rear_iter + 1

\* The roll gradient of the body that just ran is below target_min
BelowTargetMin == Sub(current_rg'[1], target.target_deg_per_g_min).m < 0

\* The bracket [d_min, d_max] becomes [d_min2, d_max2] as the search moves to
\* smaller (larger) diameters: the candidate becomes the upper (lower) bound,
\* and the next candidate is not greater (smaller) than this one
TowardsSmaller(d_min, d_max, d_min2, d_max2) ==
    /\ d_max2 = Mid(d_min, d_max) /\ d_min2 = d_min
    /\ Le(Mid(d_min2, d_max2), Mid(d_min, d_max))

TowardsLarger(d_min, d_max, d_min2, d_max2) ==
    /\ d_min2 = Mid(d_min, d_max) /\ d_max2 = d_max
    /\ Ge(Mid(d_min2, d_max2), Mid(d_min, d_max))

C17_Step ==
    /\ FrontBodyRan =>
           IF BelowTargetMin
           THEN TowardsSmaller(front_d_min, front_d_max, front_d_min', front_d_max')
           ELSE TowardsLarger(front_d_min, front_d_max, front_d_min', front_d_max')
    /\ RearBodyRan =>
           IF BelowTargetMin
           THEN TowardsSmaller(rear_d_min, rear_d_max, rear_d_min', rear_d_max')
           ELSE TowardsLarger(rear_d_min, rear_d_max, rear_d_min', rear_d_max')

C17_OriginalStep ==
    /\ (FrontBodyRan /\ BelowTargetMin)
           => Gt(Mid(front_d_min', front_d_max'), Mid(front_d_min, front_d_max))
    /\ (RearBodyRan /\ BelowTargetMin)
           => Gt(Mid(rear_d_min', rear_d_max'), Mid(rear_d_min, rear_d_max))

SearchingFront == pc = "front_loop"

SearchingRear == pc = "rear_loop"

Converged == pc = "done"

\* The diameters that the phases hold fixed
C18_Held ==
    /\ SearchingFront => rear.arb_d_od = rear_at_call.arb_d_od
    /\ SearchingRear => front.arb_d_od = Mid(front_d_min, front_d_max)

\* A phase is followed by itself or by the next one (or the call raises), the
\* front bracket is final once the front phase is over, and only a new call of
\* optimize_arb_diameters starts another search
C18_Order ==
    /\ SearchingFront => pc' \in {"front_loop", "rear_loop", "raised"}
    /\ SearchingRear => /\ pc' \in {"rear_loop", "done", "raised"}
                        /\ UNCHANGED <<front_d_min, front_d_max>>
                        /\ front'.arb_d_od = front.arb_d_od
    /\ Converged => pc' = "done" \/ (pc' = "front_loop" /\ calls' = calls + 1)

\* C18: a search passes through Searching-Front, Searching-Rear, Converged in
\* that order and never returns to an earlier phase; throughout the front phase
\* the rear bar diameter is the one the call started with, and throughout the
\* rear phase the front bar diameter is the midpoint of the final front
\* bracket, fixed at the end of the front phase.
C18_Phases == []C18_Held /\ [][C18_Order]_vars

\* C18 witness: the rear phase is under way, with the rear bar away from its
\* initial diameter and the front bar fixed away from its initial diameter
C18_Witness ==
    /\ SearchingRear /\ rear_iter >= 1
    /\ rear.arb_d_od # rear_at_call.arb_d_od
    /\ front.arb_d_od # front_at_call.arb_d_od
    /\ front.arb_d_od = Mid(front_d_min, front_d_max)

\* The initial search brackets (d_min, d_max) of optimize_arb_diameters, m
FrontBracket == <<Dec(10, 1000), Dec(40, 1000)>>

RearBracket == <<Dec(8, 1000), Dec(25, 1000)>>

\* The diameter d as an exact multiple of the spacing of the floats at the
\* smallest bracket bound; no bound or midpoint of a bracket is finer
Units(d) == d.m * Pow2(d.e - RearBracket[1].e)

Width(d_min, d_max) == Units(d_max) - Units(d_min)

\* The spacing of the floats at the upper bound of the bracket b
Spacing(b) == Pow2(b[2].e - RearBracket[1].e)

\* The width of [d_min, d_max] is exactly the width of b divided by 2^n; a
\* width is a whole number of units below 2^(MantBits + 2)
HalvedExactly(b, d_min, d_max, n) ==
    /\ n < MantBits + 2
    /\ Width(d_min, d_max) * Pow2(n) = Width(b[1], b[2])

\* The same up to the rounding of the midpoints: within one spacing
HalvedUpToRounding(b, d_min, d_max, n) ==
    IF n < MantBits + 2
    THEN Abs(Width(d_min, d_max) * Pow2(n) - Width(b[1], b[2])) <= Spacing(b) * Pow2(n)
    ELSE Width(d_min, d_max) <= Spacing(b)

\* d_min <= midpoint <= d_max, inside the initial bracket b
Bracketed(b, d_min, d_max) ==
    /\ Le(d_min, Mid(d_min, d_max)) /\ Le(Mid(d_min, d_max), d_max)
    /\ Le(b[1], d_min) /\ Le(d_max, b[2])

\* One bound becomes the midpoint and the other one stays
OneBoundToMidpoint(d_min, d_max, d_min2, d_max2) ==
    \/ d_min2 = Mid(d_min, d_max) /\ d_max2 = d_max
    \/ d_max2 = Mid(d_min, d_max) /\ d_min2 = d_min

Inside(b, d) == Le(b[1], d) /\ Le(d, b[2])

C20_State ==
    pc # "idle" =>
        /\ Bracketed(FrontBracket, front_d_min, front_d_max)
        /\ Bracketed(RearBracket, rear_d_min, rear_d_max)
        /\ HalvedUpToRounding(FrontBracket, front_d_min, front_d_max, front_iter)
        /\ HalvedUpToRounding(RearBracket, rear_d_min, rear_d_max, rear_iter)
        /\ Converged => /\ Inside(FrontBracket, front.arb_d_od)
                        /\ Inside(RearBracket, rear.arb_d_od)

C20_Step ==
    /\ FrontBodyRan
           => OneBoundToMidpoint(front_d_min, front_d_max, front_d_min', front_d_max')
    /\ RearBodyRan
           => OneBoundToMidpoint(rear_d_min, rear_d_max, rear_d_min', rear_d_max')

\* C20 (as amended): at every iteration of each stage d_min <= candidate
\* midpoint <= d_max, the bracket stays inside the initial bracket, one of its
\* two bounds is set to the midpoint and the other stays, so that its width
\* after n iterations is the initial width / 2^n up to the rounding of the
\* midpoints (within one spacing of the floats at the upper bound), and the
\* final front and rear diameters lie inside the initial search bounds.
C20_Bracket == []C20_State /\ [][C20_Step]_vars

\* C20 witness: the call returned after both brackets were halved fifty times,
\* with both final diameters strictly inside the initial bounds
C20_Witness ==
    /\ Converged
    /\ front_iter = max_iterations /\ rear_iter = max_iterations
    /\ Lt(FrontBracket[1], front.arb_d_od) /\ Lt(front.arb_d_od, FrontBracket[2])
    /\ Lt(RearBracket[1], rear.arb_d_od) /\ Lt(rear.arb_d_od, RearBracket[2])

\* C20 as stated: the width after n iterations is exactly the initial width / 2^n
C20_Original ==
    pc # "idle" =>
        /\ HalvedExactly(FrontBracket, front_d_min, front_d_max, front_iter)
        /\ HalvedExactly(RearBracket, rear_d_min, rear_d_max, rear_iter)

(***************************************************************************)
(* Properties of the arb_calc functions (SpecCalc)                         *)
(***************************************************************************)
Called(fn) == call.fn = fn

\* sum of 1/r over the strictly positive entries among the first n of rates
RECURSIVE SumInvPositive(_, _)
SumInvPositive(rates, n) ==
    IF n = 0 THEN Zero
    ELSE IF rates[n].m > 0
    THEN Add(SumInvPositive(rates, n - 1), Div(FromInt(1), rates[n]))
    ELSE SumInvPositive(rates, n - 1)

AbsF(x) == [m |-> Abs(x.m), e |-> x.e]

\* |x - y| <= |y| * 2^(2 - MantBits): equal up to the rounding of two operations
WithinRounding(x, y) ==
    Le(AbsF(Sub(x, y)), Mul(AbsF(y), [m |-> Pow2(MantBits - 1), e |-> 3 - 2 * MantBits]))

IsPair(rates) == Len(rates) = 2 /\ rates[1] = rates[2] /\ rates[1].m > 0

\* C7 (as amended): series_rate returns 1 / sum(1/r) over exactly the strictly
\* positive arguments, it raises when none is strictly positive (also with no
\* argument), and series_rate(k, k) equals k/2 up to floating-point rounding.
C7_SeriesRate ==
    Called("series_rate") =>
        /\ (\A i \in 1..Len(call.args) : call.args[i].m <= 0) =>
               /\ ~call.out.ok
               /\ call.out.err = "At least one positive stiffness is required"
        /\ (\E i \in 1..Len(call.args) : call.args[i].m > 0) =>
               /\ call.out.ok
               /\ call.out.v = Div(FromInt(1), SumInvPositive(call.args, Len(call.args)))
        /\ IsPair(call.args) =>
               WithinRounding(call.out.v, Div(call.args[1], FromInt(2)))

\* C7 witness: series_rate(k, 0, k) returned a value that is k/2 only up to
\* rounding, the zero rate dropped
C7_Witness ==
    /\ Called("series_rate")
    /\ Len(call.args) = 3
    /\ call.args[1] = call.args[3] /\ call.args[1].m > 0 /\ call.args[2].m = 0
    /\ call.out.ok
    /\ call.out.v # Div(call.args[1], FromInt(2))
    /\ WithinRounding(call.out.v, Div(call.args[1], FromInt(2)))

\* C7 as stated: series_rate(k, k) = k/2 for every positive k
C7_Original ==
    (Called("series_rate") /\ IsPair(call.args)) =>
        (call.out.ok /\ call.out.v = Div(call.args[1], FromInt(2)))

ValidSection(d_od, d_id) == d_od.m > 0 /\ d_id.m >= 0 /\ Sub(d_od, d_id).m > 0

\* C8: polar_second_moment and area_moment_round raise when d_od <= 0, d_id < 0
\* or d_id >= d_od; otherwise they return pi/32 (d_od^4 - d_id^4) and
\* pi/64 (d_od^4 - d_id^4), so that J = 2 I and J > I > 0.
C8_SectionMoments ==
    /\ Called("polar_second_moment") =>
           IF ValidSection(call.args[1], call.args[2])
           THEN /\ call.out.ok
                /\ call.out.v = Mul(Div(Pi, FromInt(32)),
                                    Sub(Pow4(call.args[1]), Pow4(call.args[2])))
                /\ call.out.v = Mul(FromInt(2),
                                    area_moment_round(call.args[1], call.args[2]).v)
                /\ Gt(call.out.v, area_moment_round(call.args[1], call.args[2]).v)
           ELSE ~call.out.ok
    /\ Called("area_moment_round") =>
           IF ValidSection(call.args[1], call.args[2])
           THEN /\ call.out.ok
                /\ call.out.v = Mul(Div(Pi, FromInt(64)),
                                    Sub(Pow4(call.args[1]), Pow4(call.args[2])))
                /\ Gt(call.out.v, Zero)
           ELSE ~call.out.ok

\* C8 witness: a tubular section, inner diameter just below the outer one
C8_Witness ==
    /\ Called("polar_second_moment")
    /\ call.out.ok
    /\ call.args[2].m > 0

\* C9: each closed-form stiffness function raises its own error when its
\* length or ratio argument is not positive.
C9_Validation ==
    /\ (Called("torsion_stiffness") /\ (call.args[3].m <= 0 \/ call.args[4].m <= 0)) =>
           (~call.out.ok /\ call.out.err = "Center length and arm length must be positive")
    /\ (Called("cantilever_stiffness") /\ call.args[3].m <= 0) =>
           (~call.out.ok /\ call.out.err = "Arm length must be positive")
    /\ (Called("wheel_rate_from_tip") /\ call.args[2].m <= 0) =>
           (~call.out.ok /\ call.out.err = "Motion ratio must be positive")
    /\ (Called("roll_stiffness_from_wheel_rate") /\ call.args[2].m <= 0) =>
           (~call.out.ok /\ call.out.err = "Track width must be positive")
    /\ (Called("roll_gradient_deg_per_g") /\ call.args[1].m <= 0) =>
           (~call.out.ok /\ call.out.err = "Total roll stiffness must be positive")

\* C9 witness: torsion_stiffness rejected a zero arm length although the outer
\* diameter was invalid as well
C9_Witness ==
    /\ Called("torsion_stiffness")
    /\ call.args[4].m = 0
    /\ call.args[2].m <= 0
    /\ ~call.out.ok

\* The arm rate of one side: the override when given, else the cantilever rate
ArmRate(override, args) ==
    IF override # None THEN override[1]
    ELSE cantilever_stiffness(args[2], args[3], args[5], args[6]).v

\* C10: arb_tip_rate is series_rate(left arm, center torsion, right arm), where
\* each arm is the cantilever rate of the geometry unless that side's override is
\* given; the torsion term is always one of the three rates.
C10_ArbTipRate ==
    Called("arb_tip_rate") =>
        IF call.args[5].m <= 0 THEN ~call.out.ok
        ELSE call.out = series_rate(<<ArmRate(call.args[7], call.args),
                                 torsion_stiffness(call.args[1], call.args[3], call.args[4],
                                                   call.args[5], call.args[6]).v,
                                 ArmRate(call.args[8], call.args)>>)

\* C10 witness: only the right arm rate was overridden
C10_Witness ==
    /\ Called("arb_tip_rate")
    /\ call.out.ok
    /\ call.args[7] = None
    /\ call.args[8] # None
    /\ call.args[8][1].m > 0

(***************************************************************************)
(* Properties of the strain-energy calculator (SpecEnergy)                 *)
(***************************************************************************)
\* The wall thickness asks for the solid-bar fallback
SolidFallback(i) ==
    \/ i.wall_thickness = None
    \/ Le(i.wall_thickness[1], Zero)
    \/ Ge(i.wall_thickness[1], Div(i.material_diameter, FromInt(2)))

\* The C-values calculate has assigned once it has computed the bore C39
BoreValues(i) == LinearMassAndBore(StoreInputs(i))

\* 0 <= x as extended values
XNonNegative(x) == x.k = "num" /\ x.f.m >= 0

XLess(x, y) == x.k = "num" /\ y.k = "num" /\ Lt(x.f, y.f)

C11_Bore(i, r) ==
    /\ SolidFallback(i) =>
           /\ r.C21 = XNum(Div(i.material_diameter, FromInt(2)))
           /\ r.C39 = XNum(Zero)
    /\ ~SolidFallback(i) =>
           /\ r.C21 = XNum(i.wall_thickness[1])
           /\ r.C39 = XNum(Sub(i.material_diameter,
                               Mul(FromInt(2), i.wall_thickness[1])))
    /\ XNonNegative(r.C39)
    /\ ~XLess(r.C20, r.C39)
    /\ call.out.ok =>
           /\ call.out.v.C21 = r.C21 /\ call.out.v.C39 = r.C39
           /\ arb_results = <<call.out.v>>
           /\ XLess(call.out.v.C39, call.out.v.C20)

\* C11: for a positive material diameter, a wall thickness that is None, <= 0
\* or >= material_diameter / 2 gives C21 = material_diameter / 2 and C39 = 0;
\* any other wall gives C39 = material_diameter - 2 * wall as a float, which is
\* >= 0 and never above the outer diameter, and strictly below it in every
\* result that calculate returns and stores.
C11_SolidOrHollow ==
    (Called("calculate") /\ Gt(call.args[1].material_diameter, Zero)) =>
        C11_Bore(call.args[1], BoreValues(call.args[1]))

\* C11 witness: a hollow bar (26 mm, wall 3 mm) was calculated and stored
C11_Witness ==
    /\ Called("calculate") /\ call.out.ok
    /\ ~SolidFallback(call.args[1])
    /\ XLess(XNum(Zero), call.out.v.C39)
    /\ arb_results = <<call.out.v>>

\* C11 as stated: whatever the wall thickness, the inner diameter that
\* calculate computes is >= 0 and strictly below the outer diameter.
C11_Original ==
    (Called("calculate") /\ Gt(call.args[1].material_diameter, Zero)) =>
        /\ XNonNegative(BoreValues(call.args[1]).C39)
        /\ XLess(BoreValues(call.args[1]).C39, BoreValues(call.args[1]).C20)

\* The five section energies of a result dictionary, summed as Python sums them
SumOfSections(r) == XAdd(XAdd(XAdd(XAdd(r.C59, r.C64), r.C69), r.C74), r.C75)

\* A summary reports the five sections and the total of the dictionary r
SummaryMatches(sections, energy_total, r) ==
    /\ sections = <<r.C59, r.C64, r.C69, r.C74, r.C75>>
    /\ energy_total = r.C76

C12_Summaries(a, b, c, r) ==
    /\ a.ok /\ b.ok /\ c.ok
    /\ SummaryMatches(<<a.v.energy_straight_section, a.v.energy_bend_bending,
                        a.v.energy_bend_torsion, a.v.energy_middle_section,
                        a.v.energy_outer_section>>, a.v.total_strain_energy, r)
    /\ a.v.spring_rate_calculated = r.C28
    /\ SummaryMatches(<<b.v.energy_section_A, b.v.energy_section_B, b.v.energy_section_C,
                        b.v.energy_section_D, b.v.energy_section_E>>,
                      b.v.total_energy_sum, r)
    /\ b.v.k_calculated_N_per_mm = r.C28
    /\ SummaryMatches(<<c.v.energy_straight_section, c.v.energy_bend_bending,
                        c.v.energy_bend_torsion, c.v.energy_middle_section,
                        c.v.energy_outer_section>>, c.v.total_strain_energy, r)
    /\ c.v.spring_rate_calculated = r.C28

\* C12: in every result that calculate returns and stores, C76 is the sum of
\* the five section energies C59, C64, C69, C74, C75 and nothing else, and
\* C28 = 1 / (2 * C76); every get_summary (arb_dia1, arb_dia and
\* roll_stiff_new_arb_dia) reports these five values, this total and this
\* spring rate unchanged.
C12_TotalEnergy ==
    /\ (Called("calculate") /\ call.out.ok) =>
           /\ call.out.v.C76 = SumOfSections(call.out.v)
           /\ call.out.v.C28 = XDiv(XInt(1), XMul(XInt(2), call.out.v.C76))
           /\ arb_results = <<call.out.v>>
    /\ arb_results # <<>> =>
           /\ arb_results[1].C76 = SumOfSections(arb_results[1])
           /\ C12_Summaries(get_summary(arb_results), get_summary_arb_dia(arb_results),
                            get_summary_new(arb_results), arb_results[1])
    /\ (Called("get_summary") /\ arb_results # <<>>) =>
           call.out = get_summary(arb_results)

\* C12 witness: get_summary returned the energies of a stored result whose
\* five sections are all positive
C12_Witness ==
    /\ Called("get_summary") /\ call.out.ok
    /\ arb_results # <<>>
    /\ call.out.v.total_strain_energy = SumOfSections(arb_results[1])
    /\ \A key \in {"C59", "C64", "C69", "C74", "C75"} :
           XLess(XNum(Zero), arb_results[1][key])

\* The C-values only arb_dia.py and arb_dia1.py compute
SupplierKeys == {"C7", "C9", "C10", "C8"}

\* Two returned dictionaries agree on every key of the smaller one
SameShared(a, n) ==
    /\ DOMAIN a = DOMAIN n \cup SupplierKeys
    /\ \A key \in DOMAIN n : a[key] = n[key]

C13_Agree(a, b, n) ==
    /\ a = b
    /\ (a.ok /\ n.ok) => SameShared(a.v, n.v)
    /\ ~n.ok => (~a.ok /\ a.err = n.err)
    /\ (n.ok /\ ~a.ok) =>
           /\ n.v.C28 = XNum(Zero)
           /\ a.err = "float division by zero"

\* C13: on the same inputs arb_dia.py and arb_dia1.py have the same outcome
\* (the same dictionary or the same exception); roll_stiff_new_arb_dia.py
\* returns the same values for every key it has (C14-C22, C37-C76, C28), raises
\* whenever the other two raise while computing those, and differs only where
\* the others fail in the supplier ratio C10 = C7 / C9 because the spring
\* rate C28 is 0.0.
C13_SameAlgorithm ==
    Called("calculate") =>
        C13_Agree(calculate(call.args[1]), calculate_arb_dia(call.args[1]),
                  calculate_new(call.args[1]))

\* C13 witness: a hollow bar for which all three calculators return
C13_Witness ==
    /\ Called("calculate") /\ call.out.ok
    /\ ~SolidFallback(call.args[1])
    /\ calculate_new(call.args[1]).ok
    /\ calculate_arb_dia(call.args[1]).ok

\* C13 as stated: the three calculators raise on the same inputs
C13_Original ==
    Called("calculate") =>
        /\ calculate_arb_dia(call.args[1]).ok = call.out.ok
        /\ calculate_new(call.args[1]).ok = call.out.ok


(***************************************************************************)
(* Properties of the K&C selection and the understeer budget (SpecBudget)  *)
(***************************************************************************)
\* The seven named components of an UndersteerBudget, in the order of its fields
Components ==
    << "roll_steer", "roll_camber", "lateral_force_compliance_steer",
       "lateral_force_compliance_camber", "aligning_torque_compliance_steer",
       "weight_distribution", "aligning_torque_steer" >>

\* b[names[1]] + ... + b[names[n]], added left to right
RECURSIVE SumOfComponents(_, _, _)
SumOfComponents(b, names, n) ==
    IF n = 0 THEN Zero
    ELSE IF n = 1 THEN b[names[1]]
    ELSE Add(SumOfComponents(b, names, n - 1), b[names[n]])

\* C14: total() of a budget is the sum of exactly its seven named components,
\* and the budget has no other component, for every budget that
\* calculate_understeer_budget returned and for the default all-zero budget.
C14_TotalIsSum ==
    /\ call.fn = "calculate_understeer_budget" /\ call.out.ok
           => DOMAIN call.out.v = { Components[n] : n \in 1..7 }
    /\ call.fn = "total"
           => /\ DOMAIN call.args[1] = { Components[n] : n \in 1..7 }
              /\ call.out = Ok(SumOfComponents(call.args[1], Components, 7))
              /\ call.args[1] = DefaultBudget => call.out = Ok(Zero)

\* total() was called on a returned budget whose seven components are all
\* nonzero
C14_Witness ==
    /\ call.fn = "total"
    /\ \A n \in 1..7 : call.args[1][Components[n]] # Zero


\* The vehicle as calculate_understeer_budget is said to see it: the axle
\* weights and the wheelbase
BudgetVehicle(v) ==
    [v EXCEPT !.sprung_mass = Zero, !.sprung_cg_height = Zero,
              !.front_rc_height = Zero, !.rear_rc_height = Zero]

\* An axle as calculate_understeer_budget is said to see it: the five K&C
\* coefficients
BudgetAxle(a) ==
    [a EXCEPT !.spring_rate = Zero, !.motion_ratio = Zero, !.track_width = Zero,
              !.arb_shear_modulus = Zero, !.arb_young_modulus = Zero,
              !.arb_center_length = Zero, !.arb_arm_length = Zero,
              !.arb_d_od = Zero, !.arb_d_id = Zero]

C15_Step ==
    call'.fn = "calculate_understeer_budget" =>
        /\ UNCHANGED <<vehicle, front, rear, tire_front, tire_rear, target>>
        /\ call'.out = calculate_understeer_budget(
                           BudgetVehicle(vehicle), BudgetAxle(front), BudgetAxle(rear),
                           tire_front, tire_rear, call'.args[1], call'.args[2])
        /\ (call.fn = "calculate_understeer_budget" /\ call.args = call'.args)
               => call'.out = call.out

\* C15: a call of calculate_understeer_budget changes no field of the vehicle,
\* axle, tire and target records; what it returns is determined by the roll
\* gradient, the lateral acceleration, the axle weights and wheelbase, the
\* axles' K&C coefficients and the tire parameters alone; and a second call
\* with the same arguments returns the same seven components.
C15_PureBudget == [][C15_Step]_vars

\* A budget was returned for axles whose K&C coefficients had been selected
C15_Witness ==
    /\ call.fn = "calculate_understeer_budget"
    /\ call.out.ok
    /\ front.lateral_force_steer_compliance # Zero
    /\ call.out.v.roll_steer # Zero


\* The five K&C coefficients of an axle, in the units of the axle record, when
\* those of the constraint ranges are taken at index n
KcAt(side, n) ==
    << KCConstraints["roll_steer_" \o side][n],
       KCConstraints["roll_camber_" \o side][n],
       PerNewton(KCConstraints["lateral_force_steer_compliance_" \o side][n]),
       PerNewton(KCConstraints["lateral_force_camber_compliance_" \o side][n]),
       PerNewtonMetre(KCConstraints["aligning_torque_steer_compliance_" \o side][n]) >>

KcOf(axle) ==
    << axle.roll_steer_gradient, axle.camber_per_roll,
       axle.lateral_force_steer_compliance, axle.lateral_force_camber_compliance,
       axle.aligning_torque_steer_compliance >>

\* Every K&C coefficient of the axle lies inside its constraint range
InsideRanges(axle, side) ==
    \A n \in 1..5 : /\ Le(KcAt(side, 1)[n], KcOf(axle)[n])
                    /\ Le(KcOf(axle)[n], KcAt(side, 2)[n])

\* optimize_kc_parameters left front at the upper and rear at the lower bounds
C16_AtBounds ==
    call.fn = "optimize_kc_parameters"
        => KcOf(front) = KcAt("front", 2) /\ KcOf(rear) = KcAt("rear", 1)

\* The budget just returned was computed for a positive roll gradient, positive
\* axle weights, tire stiffnesses and pneumatic trails, and a selection of
\* K&C coefficients inside the ranges
C16_Conditions ==
    /\ call.fn = "calculate_understeer_budget"
    /\ call.out.ok
    /\ Gt(call.args[1], Zero)
    /\ Gt(vehicle.front_weight, Zero) /\ Gt(vehicle.rear_weight, Zero)
    /\ \A t \in {tire_front, tire_rear} :
           /\ Gt(t.cornering_stiffness, Zero)
           /\ Gt(t.camber_stiffness, Zero)
           /\ Gt(t.pneumatic_trail, Zero)
    /\ InsideRanges(front, "front")
    /\ InsideRanges(rear, "rear")

\* The budget of the same call after optimize_kc_parameters
OptimizedBudget ==
    calculate_understeer_budget(
        vehicle,
        optimize_kc_parameters(front, rear, KCConstraints).front,
        optimize_kc_parameters(front, rear, KCConstraints).rear,
        tire_front, tire_rear, call.args[1], call.args[2])

\* The total of the budget just returned is not larger than the total the
\* selection of optimize_kc_parameters gives
NotLargerThanOptimized == Le(total(call.out.v), total(OptimizedBudget.v))

\* C16: optimize_kc_parameters sets every front coefficient to the upper and
\* every rear coefficient to the lower bound of its range; and for a positive
\* roll gradient, positive lateral acceleration, positive axle weights, tire
\* stiffnesses and pneumatic trails, no selection inside the ranges gives a
\* larger total from calculate_understeer_budget.
C16_MaximizesUndersteer ==
    /\ C16_AtBounds
    /\ (C16_Conditions /\ Gt(call.args[2], Zero)) => NotLargerThanOptimized

\* A budget for a positive lateral acceleration and a selection other than the
\* optimized one, with a strictly smaller total
C16_Witness ==
    /\ C16_Conditions
    /\ Gt(call.args[2], Zero)
    /\ KcOf(front) # KcAt("front", 2)
    /\ KcOf(rear) # KcAt("rear", 1)
    /\ Lt(total(call.out.v), total(OptimizedBudget.v))

\* C16 as stated: the same without the condition on the lateral acceleration
C16_Original ==
    /\ C16_AtBounds
    /\ C16_Conditions => NotLargerThanOptimized


(***************************************************************************)
(* Effects of optimize_arb_diameters on the calculator's records (Spec)    *)
(***************************************************************************)
\* The axle record b is the record a with, at most, another arb_d_od
OnlyDiameterDiffers(a, b) == b = [a EXCEPT !.arb_d_od = b.arb_d_od]

C21_Step ==
    /\ OnlyDiameterDiffers(front, front')
    /\ OnlyDiameterDiffers(rear, rear')
    /\ UNCHANGED <<vehicle, tire_front, tire_rear, target>>
    /\ FrontBodyRan => front'.arb_d_od = Mid(front_d_min, front_d_max)
    /\ RearBodyRan => rear'.arb_d_od = Mid(rear_d_min, rear_d_max)

\* After the return the axle records hold the diameters of the reported result
C21_Returned ==
    Returned =>
        /\ OnlyDiameterDiffers(front_at_call, front)
        /\ OnlyDiameterDiffers(rear_at_call, rear)
        /\ front.arb_d_od = Mid(front_d_min, front_d_max)
        /\ rear.arb_d_od = Mid(rear_d_min, rear_d_max)
        /\ result = <<ResultDict(Evaluate(front, rear).v)>>

\* C21: optimize_arb_diameters changes the calculator's axle records in place
\* and only in arb_d_od, which every loop body sets to the midpoint of its
\* bracket; the vehicle, tire and target records are unchanged; and after the
\* call returns each axle's arb_d_od is the final diameter from which the
\* reported result was computed.
C21_OnlyDiameters == []C21_Returned /\ [][C21_Step]_vars

\* C21 witness: the call returned with both bars at diameters other than the
\* ones the records held when it started
C21_Witness ==
    /\ Returned
    /\ front.arb_d_od # front_at_call.arb_d_od
    /\ rear.arb_d_od # rear_at_call.arb_d_od

(***************************************************************************)
(* Convergence of the front search of optimize_arb_diameters (Spec)        *)
(***************************************************************************)
MaxF(x, y) == IF Le(x, y) THEN y ELSE x

\* 2^n as a float
TwoTo(n) == [m |-> Pow2(MantBits - 1), e |-> n - (MantBits - 1)]

\* The front loop has just ended: the front bar is fixed, the rear bar is
\* still at its initial diameter
FrontSearchOver == pc = "rear_loop" /\ rear_iter = 0

\* The roll gradient with the front bar at diameter d and the rear bar as it is
RollGradientAt(d) ==
    Evaluate([front EXCEPT !.arb_d_od = d], rear).v.roll_gradient_deg_per_g

\* (front_d_max - front_d_min) / 2^50 of the initial bracket, or the spacing
\* of the floats at the upper bound where that is coarser
DiameterTolerance ==
    MaxF(Mul(Sub(FrontBracket[2], FrontBracket[1]), TwoTo(-max_iterations)),
         TwoTo(FrontBracket[2].e))

\* 1e-6 deg/g, or 2^(6 - MantBits) deg/g where the rounding of the roll
\* gradient is coarser than that
GradientTolerance == MaxF(Dec(1, 1000000), TwoTo(6 - MantBits))

\* target_min is attained inside the front bracket; the roll gradient falls
\* as the diameter grows
Attained ==
    /\ Ge(RollGradientAt(FrontBracket[1]), target.target_deg_per_g_min)
    /\ Lt(RollGradientAt(FrontBracket[2]), target.target_deg_per_g_min)

NeverBelow == Ge(RollGradientAt(FrontBracket[2]), target.target_deg_per_g_min)

AlwaysBelow == Lt(RollGradientAt(FrontBracket[1]), target.target_deg_per_g_min)

\* The root of roll_gradient(d) = target_min lies in the final bracket, whose
\* ends and midpoint are within the tolerance of one another
RootBracketed ==
    /\ Ge(RollGradientAt(front_d_min), target.target_deg_per_g_min)
    /\ Lt(RollGradientAt(front_d_max), target.target_deg_per_g_min)
    /\ Le(front_d_min, front.arb_d_od) /\ Le(front.arb_d_od, front_d_max)
    /\ Le(Sub(front_d_max, front_d_min), DiameterTolerance)

GradientAtTarget ==
    Lt(AbsF(Sub(RollGradientAt(front.arb_d_od), target.target_deg_per_g_min)),
       GradientTolerance)

NextUp(d) == RoundFloat(d.m + 1, d.e, FALSE)

\* Candidate diameters of a bracket: its ends, those of the initial bracket
\* b, its midpoint, and the floats next above them
Candidates(b, d_min, d_max) ==
    LET ds == { b[1], d_min, Mid(d_min, d_max), d_max, b[2] }
    IN  ds \cup { NextUp(d) : d \in ds }

\* The evaluation of the sizing loop with the bar of the stage under way at d
EvaluationAt(d) ==
    IF SearchingFront
    THEN Evaluate([front EXCEPT !.arb_d_od = d], rear).v
    ELSE Evaluate(front, [rear EXCEPT !.arb_d_od = d]).v

StageCandidates ==
    IF SearchingFront
    THEN Candidates(FrontBracket, front_d_min, front_d_max)
    ELSE Candidates(RearBracket, rear_d_min, rear_d_max)

\* A stage of a call on valid inputs is under way
Sizing == ValidInputs /\ (SearchingFront \/ SearchingRear)

\* One row per candidate: the diameter, the roll gradient and the total roll
\* stiffness of the evaluation at it
Row(d, ev) == [d |-> d, rg |-> ev.roll_gradient_deg_per_g, k |-> ev.total_roll_stiffness]

Rows == { Row(d, EvaluationAt(d)) : d \in StageCandidates }

Below(row) == Lt(row.rg, target.target_deg_per_g_min)

\* Over the rows the roll gradient does not grow with the diameter, nor
\* roll_gradient_deg_per_g with the total roll stiffness, and it is positive
NonIncreasing(rows) ==
    \A p \in rows \X rows :
        /\ p[1].rg.m > 0
        /\ Lt(p[1].d, p[2].d) => Ge(p[1].rg, p[2].rg)
        /\ Lt(p[1].k, p[2].k) => Ge(p[1].rg, p[2].rg)

\* The bisection predicate changes value at most once over the rows
ChangesAtMostOnce(rows) ==
    \A p \in rows \X rows : (Lt(p[1].d, p[2].d) /\ Below(p[1])) => Below(p[2])

\* From the lower to the upper end of the initial bracket b the roll gradient
\* does fall
FallsAcrossBracket(rows, b) ==
    \A p \in rows \X rows : (p[1].d = b[1] /\ p[2].d = b[2]) => Gt(p[1].rg, p[2].rg)

\* The roll gradient falls strictly from each row to every row of a larger
\* diameter
StrictlyDecreasing(rows) ==
    \A p \in rows \X rows : Lt(p[1].d, p[2].d) => Gt(p[1].rg, p[2].rg)

StageBracket == IF SearchingFront THEN FrontBracket ELSE RearBracket

AllOf(rows) ==
    /\ NonIncreasing(rows)
    /\ ChangesAtMostOnce(rows)
    /\ FallsAcrossBracket(rows, StageBracket)

\* C22 (as amended): with every other input fixed and valid, the roll gradient
\* evaluated by the sizing loop is positive and non-increasing in the
\* candidate bar diameter, and falls strictly from one end of the bracket to
\* the other; roll_gradient_deg_per_g is positive and non-increasing in the
\* total roll stiffness; hence the bisection predicate roll_gradient(d) <
\* target_min changes value at most once over the bracket.
C22_Monotone == Sizing => AllOf(Rows)

\* C22 witness: a front stage in which the predicate is false at the lower
\* end and true at the upper end of the bracket
C22_Witness ==
    /\ ValidInputs /\ SearchingFront /\ front_iter >= 1
    /\ Lt(front_d_min, front_d_max)
    /\ ~Below(Row(front_d_min, EvaluationAt(front_d_min)))
    /\ Below(Row(front_d_max, EvaluationAt(front_d_max)))

\* C22 as stated: the roll gradient is strictly decreasing in the diameter
C22_Original == Sizing => StrictlyDecreasing(Rows)


(***************************************************************************)
(* The outcome of the two stages (Spec)                                    *)
(***************************************************************************)
\* The front stage ended on a root inside its bracket: both bounds moved
FrontRootInterior ==
    /\ Lt(FrontBracket[1], front_d_min)
    /\ Lt(front_d_max, FrontBracket[2])

\* C23: whenever target_min is attainable inside the search brackets (the
\* front stage ended on an interior root rather than on a bracket boundary),
\* the returned result reports meets_target = true: the roll gradient
\* recomputed at the final midpoints is neither below target_min nor above
\* target_max.
C23_MeetsTarget ==
    (ValidInputs /\ Returned /\ FrontRootInterior) =>
        /\ result[1].meets_target
        /\ Ge(result[1].roll_gradient_deg_per_g, target.target_deg_per_g_min)
        /\ Le(result[1].roll_gradient_deg_per_g, target.target_deg_per_g_max)


\* The call returned after a front stage that ended on an interior root, and
\* the rear bar started inside the rear bracket
C24_Conditions ==
    /\ ValidInputs /\ Returned /\ FrontRootInterior
    /\ Inside(RearBracket, rear_at_call.arb_d_od)

\* The roll gradient with the front bar as returned and the rear bar at d
RollGradientAtRear(d) ==
    Evaluate(front, [rear EXCEPT !.arb_d_od = d]).v.roll_gradient_deg_per_g

\* (rear_d_max - rear_d_min) / 2^50 of the initial bracket, or the spacing of
\* the floats at the upper bound where that is coarser
RearDiameterTolerance ==
    MaxF(Mul(Sub(RearBracket[2], RearBracket[1]), TwoTo(-max_iterations)),
         TwoTo(RearBracket[2].e))

\* The returned rear diameter gives the roll gradient of the initial one up to
\* the rounding of the roll gradient, and is the initial one up to the
\* relative error 2^(8 - MantBits) with which that determines the diameter
BackAtInitial(rear_initial) ==
    /\ Lt(AbsF(Sub(RollGradientAtRear(rear.arb_d_od), RollGradientAtRear(rear_initial))),
          GradientTolerance)
    /\ Le(AbsF(Sub(rear.arb_d_od, rear_initial)),
          Mul(rear_initial, TwoTo(8 - MantBits)))

Narrowed(b, below) == IF below THEN <<b[1], Mid(b[1], b[2])>> ELSE <<Mid(b[1], b[2]), b[2]>>

\* The bracket b narrowed by one body of the front loop on axles f and r
FrontBody(f, r, b) ==
    Narrowed(b, Lt(Evaluate([f EXCEPT !.arb_d_od = Mid(b[1], b[2])], r).v.roll_gradient_deg_per_g,
                   target.target_deg_per_g_min))

\* The bracket b narrowed by one body of the rear loop
RearBody(f, r, b) ==
    Narrowed(b, Lt(Evaluate(f, [r EXCEPT !.arb_d_od = Mid(b[1], b[2])]).v.roll_gradient_deg_per_g,
                   target.target_deg_per_g_min))

\* The front bracket after n more bodies of the front loop, which start from
\* the bracket b; every body keeps one bound of its bracket
RECURSIVE FrontLoop(_, _, _, _)
FrontLoop(f, r, b, n) ==
    IF n = 0 THEN b
    ELSE LET narrowed == FrontBody(f, r, b)
         IN  IF narrowed[1] = b[1] \/ narrowed[2] = b[2]
             THEN FrontLoop(f, r, narrowed, n - 1)
             ELSE b

\* The rear bracket after n more bodies of the rear loop
RECURSIVE RearLoop(_, _, _, _)
RearLoop(f, r, b, n) ==
    IF n = 0 THEN b
    ELSE LET narrowed == RearBody(f, r, b)
         IN  IF narrowed[1] = b[1] \/ narrowed[2] = b[2]
             THEN RearLoop(f, r, narrowed, n - 1)
             ELSE b

\* The final calculation on the sized axle records
FinalCalculation(f, r) ==
    [front |-> f, rear |-> r, result |-> ResultDict(Evaluate(f, r).v)]

WithRearBracket(f, r, b) == FinalCalculation(f, [r EXCEPT !.arb_d_od = Mid(b[1], b[2])])

WithFrontSized(f, r) == WithRearBracket(f, r, RearLoop(f, r, RearBracket, max_iterations))

WithFrontBracket(f, r, b) == WithFrontSized([f EXCEPT !.arb_d_od = Mid(b[1], b[2])], r)

\* optimize_arb_diameters on valid axle records f and r: the records it leaves
\* and the dict it returns
optimize_arb_diameters(f, r) ==
    WithFrontBracket(f, r, FrontLoop(f, r, FrontBracket, max_iterations))

\* The run that starts from the front bar diameter d and otherwise the same
\* records ends as this one did
SameOutcomeFrom(d, outcome) ==
    outcome = optimize_arb_diameters([front_at_call EXCEPT !.arb_d_od = d], rear_at_call)

C25_Returned ==
    (ValidInputs /\ Returned) =>
        \A d \in FrontInitialDiameters :
            SameOutcomeFrom(d, [front |-> front, rear |-> rear, result |-> result[1]])

\* Every candidate is evaluated with the candidate diameter in the front record
C25_Step ==
    (FrontBodyRan /\ ValidInputs) =>
        /\ front'.arb_d_od = Mid(front_d_min, front_d_max)
        /\ current_rg' = <<Evaluate([front EXCEPT !.arb_d_od = Mid(front_d_min, front_d_max)],
                                    rear).v.roll_gradient_deg_per_g>>

\* C25: the result of optimize_arb_diameters does not depend on the front
\* axle's initial arb_d_od: a run whose inputs differ only in that diameter
\* evaluates the same candidates and returns the same result and the same
\* final axle records.
C25_FrontInitialIgnored == []C25_Returned /\ [][C25_Step]_vars

\* C25 witness: a first call returned that had started from the other front
\* bar diameter than the default
C25_Witness ==
    /\ ValidInputs /\ Returned /\ calls = 1
    /\ front_at_call.arb_d_od = Dec(30, 1000)
    /\ front.arb_d_od # front_at_call.arb_d_od
    /\ SameOutcomeFrom(Dec(20, 1000), [front |-> front, rear |-> rear, result |-> result[1]])


(***************************************************************************)
(* The results a calculator keeps between calls (SpecEnergy)               *)
(***************************************************************************)
\* The summary reports the stored results r
ReportsResults(summary, r) ==
    /\ summary.spring_rate_calculated = r.C28
    /\ summary.spring_rate_with_gravity = r.C9
    /\ summary.spring_rate_adjusted = r.C8
    /\ summary.supplier_calc_ratio = r.C10
    /\ summary.bar_mass = r.C22
    /\ summary.inner_diameter = r.C39
    /\ summary.total_strain_energy = r.C76

\* No calculate call has completed yet
NothingStored == arb_results = <<>>

C26_State ==
    /\ (call = NoCall) => NothingStored
    /\ (call.fn = "calculate" /\ call.out.ok) => arb_results = <<call.out.v>>
    /\ (call.fn = "get_summary") =>
           /\ call.out.ok <=> ~NothingStored
           /\ call.out.ok => ReportsResults(call.out.v, arb_results[1])

C26_Step ==
    /\ (call'.fn = "calculate" /\ ~call'.out.ok) => arb_results' = arb_results
    /\ (call'.fn = "get_summary") => arb_results' = arb_results

\* C26: get_summary raises until some calculate call has completed, a
\* calculate call that raises leaves the stored results unchanged, and so
\* get_summary reports the results of the most recent successful calculate.
C26_LastSuccessful == []C26_State /\ [][C26_Step]_vars

\* C26 witness: calculate raised on eyeball_span equal to shoulder_span while
\* the results of an earlier call were stored
C26_Witness ==
    /\ call.fn = "calculate" /\ ~call.out.ok
    /\ call.args[1].eyeball_span = call.args[1].shoulder_span
    /\ ~NothingStored


(***************************************************************************)
(* The adjusted spring rate C8 (SpecEnergy)                                *)
(***************************************************************************)
\* calculate has returned the dict call.out.v
CalculateReturned == Called("calculate") /\ call.out.ok

\* The adjusted rate of the returned dict against the k_supplier passed in
AdjustedIsSupplier == call.out.v.C8 = XNum(call.args[1].k_supplier)

AdjustedNearSupplier ==
    /\ call.out.v.C8.k = "num"
    /\ WithinRounding(call.out.v.C8.f, call.args[1].k_supplier)

MassOfSection(r) ==
    XDiv(XMul(XMul(XSub(XMul(XSq(XDiv(r.C20, XInt(2))), XPi),
                        XMul(XSq(XDiv(r.C39, XInt(2))), XPi)),
                   r.C14),
              XNum(Dec(781, 100))),
         XInt(1000000))

\* x is y up to the rounding of a dozen operations
XNear(x, y) ==
    /\ x.k = "num" /\ y.k = "num"
    /\ Le(AbsF(Sub(x.f, y.f)), Mul(AbsF(y.f), TwoTo(5 - MantBits)))

\* C28: the bar mass C22 that calculate returns is the mass of the section
\* with the inner diameter C39 of the section properties; for a solid bar
\* (C39 = 0) that is the full circular section, nothing subtracted for a bore.
C28_MassFromBore ==
    CalculateReturned => XNear(call.out.v.C22, MassOfSection(call.out.v))


(***************************************************************************)
(* roll_stiff_json.py: RollStiffnessCalculator.calculate_arb_stiffness     *)
(***************************************************************************)
ZeroDivisionError == Raise("float division by zero")

calculate_arb_stiffness(arb_params) ==
    LET G == arb_params.arb_shear_modulus
        E == arb_params.arb_young_modulus
        d_od == arb_params.arb_d_od
        d_id == arb_params.arb_d_id
        L_center == arb_params.arb_center_length
        L_arm == arb_params.arb_arm_length
        MR == arb_params.motion_ratio
        track == arb_params.track_width
        J == Mul(Div(Pi, FromInt(32)), Sub(Pow4(d_od), Pow4(d_id)))
        I == Mul(Div(Pi, FromInt(64)), Sub(Pow4(d_od), Pow4(d_id)))
        Dict(k_arb_tip, k_arb_wheel) ==
            Ok([arb_tip_rate |-> k_arb_tip,
                arb_wheel_rate |-> k_arb_wheel,
                arb_roll_stiffness |-> Div(Mul(k_arb_wheel, Sq(track)), FromInt(2))])
        WithTip(k_arb_tip) == Dict(k_arb_tip, Mul(k_arb_tip, Sq(MR)))
        WithCompliance(compliance) ==
            IF compliance.m = 0 THEN ZeroDivisionError
            ELSE WithTip(Div(FromInt(1), compliance))
        WithRates(k_torsion, k_cantilever) ==
            IF k_cantilever.m = 0 \/ k_torsion.m = 0 THEN ZeroDivisionError
            ELSE WithCompliance(Add(Div(FromInt(2), k_cantilever),
                                    Div(FromInt(1), k_torsion)))
    IN  IF L_center.m = 0 \/ Cube(L_arm).m = 0 THEN ZeroDivisionError
        ELSE WithRates(Div(Mul(G, J), L_center),
                       Div(Mul(Mul(FromInt(3), E), I), Cube(L_arm)))

\* The understeer calculator on the same axle: calculate_arb_tip_rate, then
\* calculate_axle_roll_stiffness with that tip rate
AxleArbStiffness(axle) ==
    LET WithTip(tip) ==
            IF ~tip.ok THEN tip ELSE calculate_axle_roll_stiffness(axle, tip.v)
    IN  WithTip(calculate_arb_tip_rate(axle))

(***************************************************************************)
(* roll_stiff.py, roll_stiff_ui.py, roll_stiff_new_arb_dia.py:             *)
(* SuspensionCalculator.calculate_arb_diameter and                         *)
(* calculate_arb_stiffness_from_diameter                                   *)
(***************************************************************************)
\* arb_material_G=80000, MPa
DefaultMaterialG == XInt(80000)

\* x ** 0.25 for x >= 0, as the square root of the square root
XRoot4(x) == XSqrt(XSqrt(x))

\* (G * 1e6 * pi * d ** 4) / (32 * half_track_m) * (arm_length_m / half_track_m) ** 2
VerticalStiffness(diameter_m, arm_length_m, half_track_m, arb_material_G) ==
    XMul(XDiv(XMul(XMul(XMul(arb_material_G, XInt(1000000)), XPi), XPow4(diameter_m)),
              XMul(XInt(32), half_track_m)),
         XSq(XDiv(arm_length_m, half_track_m)))

\* track_m = 2 * half_track_m; 2 * k * (track_m / 2) ** 2 * (pi / 180)
RollStiffnessDeg(arb_stiffness_N_m, half_track_m) ==
    XMul(XMul(XMul(XInt(2), arb_stiffness_N_m),
              XSq(XDiv(XMul(XInt(2), half_track_m), XInt(2)))),
         XDiv(XPi, XInt(180)))

\* d_4 of calculate_arb_diameter
DiameterToTheFourth(required_arb_stiffness_Nm_rad, arm_length_m, half_track_m, arb_material_G) ==
    XDiv(XMul(XMul(XMul(required_arb_stiffness_Nm_rad, XInt(32)), half_track_m),
              XSq(XMul(XInt(2), half_track_m))),
         XMul(XMul(XMul(arb_material_G, XInt(1000000)), XSq(arm_length_m)), XInt(2)))

\* SuspensionCalculator.calculate_arb_diameter of roll_stiff.py and of
\* roll_stiff_new_arb_dia.py
calculate_arb_diameter(required_arb_stiffness_Nm_deg, arm_length, half_track, arb_material_G) ==
    LET arm_length_m == XDiv(XNum(arm_length), XInt(1000))
        half_track_m == XDiv(XNum(half_track), XInt(1000))
        WithStiffness(arb_diameter_m, arb_stiffness_N_m) ==
            Returns([arb_diameter_mm |-> XMul(arb_diameter_m, XInt(1000)),
                     arb_stiffness_N_mm |-> XDiv(arb_stiffness_N_m, XInt(1000)),
                     arb_roll_stiffness_Nm_deg |-> RollStiffnessDeg(arb_stiffness_N_m, half_track_m)],
                    << "arb_diameter_mm", "arb_stiffness_N_mm", "arb_roll_stiffness_Nm_deg" >>)
        WithDiameter(arb_diameter_m) ==
            WithStiffness(arb_diameter_m,
                          VerticalStiffness(arb_diameter_m, arm_length_m, half_track_m,
                                            arb_material_G))
    IN  WithDiameter(XRoot4(DiameterToTheFourth(
            XMul(XNum(required_arb_stiffness_Nm_deg), XDiv(XInt(180), XPi)),
            arm_length_m, half_track_m, arb_material_G)))

\* SuspensionCalculator.calculate_arb_diameter of roll_stiff_ui.py
calculate_arb_diameter_ui(required_arb_stiffness, arm_length, half_track, arb_material_G) ==
    LET arm_length_m == XDiv(XNum(arm_length), XInt(1000))
        half_track_m == XDiv(XNum(half_track), XInt(1000))
        WithDiameter(arb_diameter_m) ==
            Returns([arb_diameter_mm |-> XMul(arb_diameter_m, XInt(1000)),
                     arb_stiffness_N_mm |->
                         XDiv(VerticalStiffness(arb_diameter_m, arm_length_m, half_track_m,
                                                arb_material_G),
                              XInt(1000))],
                    << "arb_diameter_mm", "arb_stiffness_N_mm" >>)
    IN  WithDiameter(XRoot4(DiameterToTheFourth(
            XMul(XNum(required_arb_stiffness), XDiv(XInt(180), XPi)),
            arm_length_m, half_track_m, arb_material_G)))

\* SuspensionCalculator.calculate_arb_stiffness_from_diameter of roll_stiff_ui.py
calculate_arb_stiffness_from_diameter(diameter, arm_length, half_track, arb_material_G) ==
    LET half_track_m == XDiv(XNum(half_track), XInt(1000))
        WithStiffness(arb_stiffness_N_m) ==
            Returns([arb_roll_stiffness_Nm_deg |-> RollStiffnessDeg(arb_stiffness_N_m, half_track_m),
                     arb_wheel_rate |-> XDiv(arb_stiffness_N_m, XInt(1000))],
                    << "arb_wheel_rate", "arb_roll_stiffness_Nm_deg" >>)
    IN  WithStiffness(VerticalStiffness(XDiv(XNum(diameter), XInt(1000)),
                                        XDiv(XNum(arm_length), XInt(1000)),
                                        half_track_m, arb_material_G))

(***************************************************************************)
(* Calls of the roll stiffness calculators                                 *)
(***************************************************************************)
ArbDiameters == { Dec(14, 1000), Dec(20, 1000), Dec(22, 1000), Dec(30, 1000) }

ArbInnerDiameters == { Zero, Dec(10, 1000) }

ArbCenterLengths == { Dec(9, 10), FromInt(1) }

\* m; an arm of 1 m makes the tip rate a torque per angle as well
ArbArmLengths == { Dec(25, 100), Dec(22, 100), FromInt(1), Zero }

MotionRatios == { Dec(95, 100), FromInt(1) }

\* The axle dicts of the JSON input, as AxleParams
ArbParams ==
    { [AxleParams(FromInt(35000), mr, Dec(155, 100), arm, d_od)
           EXCEPT !.arb_d_id = d_id, !.arb_center_length = center] :
        mr \in MotionRatios, arm \in ArbArmLengths, d_od \in ArbDiameters,
        d_id \in ArbInnerDiameters, center \in ArbCenterLengths }

\* Nm/deg
RequiredStiffnesses == { FromInt(50), FromInt(100), FromInt(500), FromInt(1000) }

\* mm
SizingArmLengths == { FromInt(200), FromInt(250), FromInt(300), Zero }

\* mm; 282 mm is about 1000 / (2 * sqrt(pi))
HalfTracks == { FromInt(282), FromInt(500), FromInt(600), FromInt(750) }

CallCalculateArbStiffness ==
    \E arb_params \in ArbParams :
        /\ call = NoCall
        /\ call' = [fn |-> "calculate_arb_stiffness",
                     args |-> <<arb_params>>,
                     out |-> calculate_arb_stiffness(arb_params)]
        /\ UNCHANGED <<calcVars, extVars>>

CallAxleArbStiffness ==
    \E axle \in ArbParams :
        /\ call = NoCall
        /\ call' = [fn |-> "calculate_axle_roll_stiffness",
                     args |-> <<axle>>,
                     out |-> AxleArbStiffness(axle)]
        /\ UNCHANGED <<calcVars, extVars>>

CallCalculateArbDiameter ==
    \E required \in RequiredStiffnesses, arm_length \in SizingArmLengths, half_track \in HalfTracks :
        /\ call = NoCall
        /\ call' = [fn |-> "calculate_arb_diameter",
                     args |-> <<required, arm_length, half_track>>,
                     out |-> calculate_arb_diameter(required, arm_length, half_track,
                                                    DefaultMaterialG)]
        /\ UNCHANGED <<calcVars, extVars>>

CallCalculateArbDiameterUi ==
    \E required \in RequiredStiffnesses, arm_length \in SizingArmLengths, half_track \in HalfTracks :
        /\ call = NoCall
        /\ call' = [fn |-> "calculate_arb_diameter_ui",
                     args |-> <<required, arm_length, half_track>>,
                     out |-> calculate_arb_diameter_ui(required, arm_length, half_track,
                                                       DefaultMaterialG)]
        /\ UNCHANGED <<calcVars, extVars>>

\* calculate_arb_stiffness_from_diameter on a diameter that
\* calculate_arb_diameter has returned for the same arm and half track
CallArbStiffnessFromDiameter ==
    \E required \in RequiredStiffnesses, arm_length \in SizingArmLengths, half_track \in HalfTracks :
        LET Reevaluate(sized) ==
                /\ sized.ok
                /\ call' = [fn |-> "calculate_arb_stiffness_from_diameter",
                             args |-> <<sized.v.arb_diameter_mm.f, arm_length, half_track>>,
                             out |-> calculate_arb_stiffness_from_diameter(
                                         sized.v.arb_diameter_mm.f, arm_length, half_track,
                                         DefaultMaterialG)]
        IN  /\ call = NoCall
            /\ Reevaluate(calculate_arb_diameter_ui(required, arm_length, half_track,
                                                    DefaultMaterialG))
            /\ UNCHANGED <<calcVars, extVars>>

NextRoll ==
    \/ CallCalculateArbStiffness
    \/ CallAxleArbStiffness
    \/ CallCalculateArbDiameter
    \/ CallCalculateArbDiameterUi
    \/ CallArbStiffnessFromDiameter

SpecRoll == InitCalc /\ [][NextRoll]_vars


(***************************************************************************)
(* The two ARB stiffness calculations (SpecRoll)                           *)
(***************************************************************************)
\* x is y up to the rounding of a dozen operations
NearF(x, y) == Le(AbsF(Sub(x, y)), Mul(AbsF(y), TwoTo(5 - MantBits)))

SameStiffness(json, understeer) ==
    /\ NearF(json.arb_tip_rate, understeer.arb_tip_rate)
    /\ NearF(json.arb_wheel_rate, understeer.arb_wheel_rate)
    /\ NearF(json.arb_roll_stiffness, understeer.arb_roll_stiffness)

AgreesWith(json, understeer) ==
    /\ json.ok <=> understeer.ok
    /\ json.ok => SameStiffness(json.v, understeer.v)

\* C29: for the same axle parameters calculate_arb_stiffness of
\* roll_stiff_json.py yields the same ARB tip rate, wheel rate and roll
\* stiffness as arb_tip_rate followed by the conversions of the understeer
\* calculator.
C29_SameStiffness ==
    Called("calculate_arb_stiffness") =>
        AgreesWith(call.out, AxleArbStiffness(call.args[1]))

(***************************************************************************)
(* Sizing a bar and evaluating it again (SpecRoll)                         *)
(***************************************************************************)
\* calculate_arb_diameter returned the diameter d for the stiffness required
SizedFor(required, d, arm_length, half_track) ==
    LET Is(sized) == sized.ok /\ sized.v.arb_diameter_mm.f = d
    IN  Is(calculate_arb_diameter_ui(required, arm_length, half_track, DefaultMaterialG))

\* C30: the ARB roll stiffness that calculate_arb_diameter returns with the
\* diameter it computed, and that calculate_arb_stiffness_from_diameter
\* returns for that diameter, equals the required ARB roll stiffness passed
\* in, for every positive required stiffness, arm length and half track.
C30_RoundTrip ==
    /\ (Called("calculate_arb_diameter") /\ call.out.ok) =>
           XNear(call.out.v.arb_roll_stiffness_Nm_deg, XNum(call.args[1]))
    /\ (Called("calculate_arb_stiffness_from_diameter") /\ call.out.ok) =>
           \A required \in RequiredStiffnesses :
               SizedFor(required, call.args[1], call.args[2], call.args[3]) =>
                   XNear(call.out.v.arb_roll_stiffness_Nm_deg, XNum(required))

=============================================================================
